---- MODULE Spec2Model ----
(***************************************************************************)
(* A model of the OBD decode pipeline of python/can:                       *)
(*   can_frame.py         CANFrame.from_line, CANFrameScanner              *)
(*   signals.py           Scaling, Enumeration                             *)
(*   command_registry.py  CommandRegistry, decode_obd_response,            *)
(*                        get_model_year_command_registry                  *)
(*                                                                         *)
(* Conventions.  A Python str is a sequence of one-character strings, so   *)
(* that formatting and parsing are computed and not assumed.  A bytes      *)
(* value is a sequence of integers 0..255.  An Optional value is <<>> for  *)
(* None and <<v>> for a present v.  A dict is a function whose DOMAIN is   *)
(* its key set.                                                            *)
(*                                                                         *)
(* The specifications share the variables:                                 *)
(*   Spec     (scanner)  a frame list is given to CANFrameScanner and the  *)
(*                       consumer calls next() until StopIteration;        *)
(*   TextSpec (parser)   from_ascii_string builds the scanner from text,   *)
(*                       then the consumer iterates it;                    *)
(*   RegSpec  (registry) a command list is given to CommandRegistry and    *)
(*                       decode_obd_response's loop feeds it packets;      *)
(*   LineSpec, CodecSpec, FilterSpec  one call of CANFrame.from_line, of   *)
(*                       a format's decode_value, of Filter.matches;       *)
(*   FairSpec            Spec with the loop of next() taken when it can be;*)
(*   RegEdgeSpec         RegSpec on packets that are no well-formed        *)
(*                       response and on other spellings of an identifier; *)
(*   CacheSpec           threads call get_model_year_command_registry.     *)
(***************************************************************************)
EXTENDS Integers, Sequences, FiniteSets, TLC

VARIABLES
    frames,             \* CANFrameScanner.frames
    frame_index,        \* CANFrameScanner._frame_index
    partial_packets,    \* CANFrameScanner._partial_packets
    packets,            \* the packets returned by next() so far, in order
    emitted_by,         \* history: for each packet, the 1-based position of the frame whose step returned it
    stops,              \* how many times next() has raised StopIteration
    ascii_string,       \* the text given to from_ascii_string
    can_id_format,      \* its can_id_format argument
    extended_addressing_enabled, \* its extended_addressing_enabled argument (Optional bool)
    scanner,            \* what from_ascii_string returned: "unbuilt", "None" or "scanner"
    commands,           \* the command list given to CommandRegistry.__init__
    commands_by_parameter, \* CommandRegistry.commands_by_parameter
    packet,             \* the packet last given to identify_commands (Optional)
    responses,          \* what identify_commands returned for it
    results,            \* decode_obd_response's results dict
    handled,            \* how many packets decode_obd_response's loop has handled
    call,               \* the arguments of a call of a pure function (Optional)
    ret,                \* what that call returned or raised (Optional)
    MODEL_YEAR_REGISTRY_CACHE, \* the module's dict: model year -> registry instance
    pc,                 \* per thread: where it stands in get_model_year_command_registry
    local_model_year,   \* per thread: the model_year argument of its call
    local_registry,     \* per thread: its local variable registry (Optional)
    returned,           \* history: the successful returns, in order
    created,            \* how many CommandRegistry instances were constructed
    calls               \* how many calls were started

vars == <<frames, frame_index, partial_packets, packets, emitted_by, stops,
          ascii_string, can_id_format, extended_addressing_enabled, scanner, commands, commands_by_parameter, packet,
          responses, results, handled, call, ret,
          MODEL_YEAR_REGISTRY_CACHE, pc, local_model_year, local_registry,
          returned, created, calls>>

scanVars == <<frames, frame_index, partial_packets, packets, emitted_by, stops>>
textVars == <<ascii_string, can_id_format, extended_addressing_enabled, scanner>>
regVars  == <<commands, commands_by_parameter, packet, responses, results, handled>>
callVars == <<call, ret>>
cacheVars == <<MODEL_YEAR_REGISTRY_CACHE, pc, local_model_year, local_registry,
               returned, created, calls>>

(***************************************************************************)
(* Bounds                                                                  *)
(***************************************************************************)
MaxFrames == 3      \* frames in a scanner's list
MaxSize == 3        \* declared size of a First frame
MaxIndex == 2       \* sequence index of a Consecutive frame
MaxData == 2        \* payload bytes of one frame
MaxStops == 2       \* StopIteration raised at most this often
MaxLines == 3       \* lines of a text given to from_ascii_string
MaxCommands == 3    \* commands given to a registry
MaxPackets == 1     \* packets one decode hands to the registry
MaxCalls == 4       \* calls of get_model_year_command_registry

(***************************************************************************)
(* Python values                                                           *)
(***************************************************************************)
None == <<>>
Some(v) == <<v>>

EmptyDict == [k \in {} |-> 0]
DictSet(d, k, v) == [x \in (DOMAIN d) \cup {k} |-> IF x = k THEN v ELSE d[x]]
DictDel(d, k) == [x \in (DOMAIN d) \ {k} |-> d[x]]

Min(a, b) == IF a <= b THEN a ELSE b
Max(a, b) == IF a >= b THEN a ELSE b

\* s[:n] of Python: the first n items, the whole of s when n > len(s), and
\* all but the last -n items when n is negative.
PyPrefix(s, n) ==
    IF n >= 0 THEN SubSeq(s, 1, Min(n, Len(s)))
    ELSE SubSeq(s, 1, Max(Len(s) + n, 0))

\* s[n:] of Python for n >= 0
PySuffix(s, n) == SubSeq(s, Min(n, Len(s)) + 1, Len(s))

(***************************************************************************)
(* can_frame.py: frames and packets                                        *)
(***************************************************************************)
ELEVEN_BIT == "ELEVEN_BIT"
TWENTY_NINE_BIT == "TWENTY_NINE_BIT"

SINGLE == "SINGLE"
FIRST == "FIRST"
CONSECUTIVE == "CONSECUTIVE"
FLOW == "FLOW"

DataFrameHeader(type, value) == [type |-> type, value |-> value]

\* DataFrameType of a header type: the value of the type nibble
DataFrameType(type) ==
    CASE type = SINGLE -> 0
      [] type = FIRST -> 1
      [] type = CONSECUTIVE -> 2
      [] type = FLOW -> 3

CANFrame(format, can_identifier, extended_receive_address, data_frame_header, data) ==
    [can_id_format |-> format,
     can_identifier |-> can_identifier,
     extended_receive_address |-> extended_receive_address,
     data_frame_type |-> DataFrameType(data_frame_header.type),
     data_frame_header |-> data_frame_header,
     data |-> data]

CANPacket(can_identifier, extended_receive_address, data) ==
    [can_identifier |-> can_identifier,
     extended_receive_address |-> extended_receive_address,
     data |-> data]

(***************************************************************************)
(* CANFrameScanner.__next__: one iteration of its while loop per frame.    *)
(* Each On* operator is one branch of the loop body and gives the partial- *)
(* packet dict after the branch and the packet it returns, if any.         *)
(***************************************************************************)
ScanStep(partial, emit) == [partial |-> partial, emit |-> emit]

\* a slip: a Single frame ends the collection in flight for its identifier
OnSingle_DropsPartial(pp, frame) ==
    ScanStep(DictDel(pp, frame.can_identifier),
             Some(CANPacket(frame.can_identifier,
                            frame.extended_receive_address,
                            frame.data)))

OnSingle(pp, frame) ==
    ScanStep(pp, Some(CANPacket(frame.can_identifier,
                                frame.extended_receive_address,
                                frame.data)))

\* a slip: a First frame for a collecting identifier extends the collection
OnFirst_KeepsCollected(pp, frame) ==
    IF frame.can_identifier \in DOMAIN pp
    THEN ScanStep(DictSet(pp, frame.can_identifier,
                          <<pp[frame.can_identifier][1] \o frame.data,
                            frame.data_frame_header.value[1]>>),
                  None)
    ELSE ScanStep(DictSet(pp, frame.can_identifier,
                          <<frame.data, frame.data_frame_header.value[1]>>),
                  None)

\* a slip: a First frame that already holds the declared size is returned at once
OnFirst_EmitsWhenFull(pp, frame) ==
    IF Len(frame.data) >= frame.data_frame_header.value[1]
    THEN ScanStep(pp, Some(CANPacket(frame.can_identifier,
                                     frame.extended_receive_address,
                                     PyPrefix(frame.data, frame.data_frame_header.value[1]))))
    ELSE ScanStep(DictSet(pp, frame.can_identifier,
                          <<frame.data, frame.data_frame_header.value[1]>>),
                  None)

OnFirst(pp, frame) ==
    ScanStep(DictSet(pp, frame.can_identifier,
                     <<frame.data, frame.data_frame_header.value[1]>>),
             None)

\* a slip: only a Consecutive frame with sequence index 1 is accumulated
OnConsecutive_ChecksIndex(pp, frame) ==
    LET can_id == frame.can_identifier IN
    IF can_id \notin DOMAIN pp \/ frame.data_frame_header.value # Some(1)
    THEN ScanStep(pp, None)
    ELSE LET accumulator == pp[can_id][1] \o frame.data
             packet_size == pp[can_id][2]
         IN  IF Len(accumulator) >= packet_size
             THEN ScanStep(DictDel(pp, can_id),
                           Some(CANPacket(can_id,
                                          frame.extended_receive_address,
                                          PyPrefix(accumulator, packet_size))))
             ELSE ScanStep(DictSet(pp, can_id, <<accumulator, packet_size>>), None)

\* a slip: a completed packet clears the whole partial-packet dict
OnConsecutive_ClearsAll(pp, frame) ==
    LET can_id == frame.can_identifier IN
    IF can_id \notin DOMAIN pp
    THEN ScanStep(pp, None)
    ELSE LET accumulator == pp[can_id][1] \o frame.data
             packet_size == pp[can_id][2]
         IN  IF Len(accumulator) >= packet_size
             THEN ScanStep(EmptyDict,
                           Some(CANPacket(can_id,
                                          frame.extended_receive_address,
                                          PyPrefix(accumulator, packet_size))))
             ELSE ScanStep(DictSet(pp, can_id, <<accumulator, packet_size>>), None)

\* a slip: the completed payload is returned without the cut to packet_size
OnConsecutive_NoTruncation(pp, frame) ==
    LET can_id == frame.can_identifier IN
    IF can_id \notin DOMAIN pp
    THEN ScanStep(pp, None)
    ELSE LET accumulator == pp[can_id][1] \o frame.data
             packet_size == pp[can_id][2]
         IN  IF Len(accumulator) >= packet_size
             THEN ScanStep(DictDel(pp, can_id),
                           Some(CANPacket(can_id,
                                          frame.extended_receive_address,
                                          accumulator)))
             ELSE ScanStep(DictSet(pp, can_id, <<accumulator, packet_size>>), None)

OnConsecutive(pp, frame) ==
    LET can_id == frame.can_identifier IN
    IF can_id \notin DOMAIN pp
    THEN ScanStep(pp, None)
    ELSE LET accumulator == pp[can_id][1] \o frame.data
             packet_size == pp[can_id][2]
         IN  IF Len(accumulator) >= packet_size
             THEN ScanStep(DictDel(pp, can_id),
                           Some(CANPacket(can_id,
                                          frame.extended_receive_address,
                                          PyPrefix(accumulator, packet_size))))
             ELSE ScanStep(DictSet(pp, can_id, <<accumulator, packet_size>>), None)

\* a slip: a FlowControl frame resets the collection of its identifier
OnFlow_ResetsPartial(pp, frame) == ScanStep(DictDel(pp, frame.can_identifier), None)

OnFlow(pp, frame) == ScanStep(pp, None)

\* the loop body: the branch taken for a frame
ProcessFrame(pp, frame) ==
    CASE frame.data_frame_header.type = SINGLE -> OnSingle(pp, frame)
      [] frame.data_frame_header.type = FIRST -> OnFirst(pp, frame)
      [] frame.data_frame_header.type = CONSECUTIVE -> OnConsecutive(pp, frame)
      [] frame.data_frame_header.type = FLOW -> OnFlow(pp, frame)

\* list(CANFrameScanner(fs)): the packets of a whole run over fs, started
\* with frame i + 1 and partial-packet dict pp
RECURSIVE ScanFrom(_, _, _)
ScanFrom(fs, i, pp) ==
    IF i >= Len(fs) THEN <<>>
    ELSE LET r == ProcessFrame(pp, fs[i + 1])
         IN  r.emit \o ScanFrom(fs, i + 1, r.partial)

ScanAll(fs) == ScanFrom(fs, 0, EmptyDict)

\* the frame the loop is about to take
CurrentFrame == frames[frame_index + 1]
HasFrame == frame_index < Len(frames)

\* a slip: the index is advanced at the end of the loop body, which a
\* branch that skips its frame with continue does not reach
Iterate_SkipKeepsFrame(r) ==
    /\ frame_index' = IF r.emit = None /\ r.partial = partial_packets
                       THEN frame_index ELSE frame_index + 1
    /\ partial_packets' = r.partial
    /\ packets' = IF r.emit = None THEN packets ELSE Append(packets, r.emit[1])
    /\ emitted_by' = IF r.emit = None THEN emitted_by
                     ELSE Append(emitted_by, frame_index + 1)
    /\ UNCHANGED <<frames, stops>>

\* the common effect of one loop iteration that ran branch result r
Iterate(r) ==
    /\ frame_index' = frame_index + 1
    /\ partial_packets' = r.partial
    /\ packets' = IF r.emit = None THEN packets ELSE Append(packets, r.emit[1])
    /\ emitted_by' = IF r.emit = None THEN emitted_by
                     ELSE Append(emitted_by, frame_index + 1)
    /\ UNCHANGED <<frames, stops>>

NextSingle ==
    /\ scanner = "scanner"
    /\ HasFrame
    /\ CurrentFrame.data_frame_header.type = SINGLE
    /\ Iterate(OnSingle(partial_packets, CurrentFrame))
    /\ UNCHANGED <<textVars, regVars, callVars, cacheVars>>

NextFirst ==
    /\ scanner = "scanner"
    /\ HasFrame
    /\ CurrentFrame.data_frame_header.type = FIRST
    /\ Iterate(OnFirst(partial_packets, CurrentFrame))
    /\ UNCHANGED <<textVars, regVars, callVars, cacheVars>>

NextConsecutive ==
    /\ scanner = "scanner"
    /\ HasFrame
    /\ CurrentFrame.data_frame_header.type = CONSECUTIVE
    /\ Iterate(OnConsecutive(partial_packets, CurrentFrame))
    /\ UNCHANGED <<textVars, regVars, callVars, cacheVars>>

NextFlow ==
    /\ scanner = "scanner"
    /\ HasFrame
    /\ CurrentFrame.data_frame_header.type = FLOW
    /\ Iterate(OnFlow(partial_packets, CurrentFrame))
    /\ UNCHANGED <<textVars, regVars, callVars, cacheVars>>

\* the loop condition fails: raise StopIteration (again on every later call)
StopIteration ==
    /\ scanner = "scanner"
    /\ ~HasFrame
    /\ stops < MaxStops
    /\ stops' = stops + 1
    /\ UNCHANGED <<frames, frame_index, partial_packets, packets, emitted_by>>
    /\ UNCHANGED <<textVars, regVars, callVars, cacheVars>>

(***************************************************************************)
(* The frame lists given to the scanner                                    *)
(***************************************************************************)
CanIds == {<<"7", "E", "8">>, <<"7", "E", "C">>}
ExtAddr == <<"F", "1">>

\* the payload of n bytes: its bytes tell their own position and length
Payload(n) == [i \in 1..n |-> 16 * n + i]
Payloads == {Payload(n) : n \in 1..MaxData}

\* The frames of a log read with (ext = Some(..)) or without (ext = None)
\* extended addressing
FrameUniverse(ext) ==
    {CANFrame(ELEVEN_BIT, id, ext, DataFrameHeader(SINGLE, Some(Len(d))), d) :
        id \in CanIds, d \in Payloads}
    \cup
    {CANFrame(ELEVEN_BIT, f[1], ext, DataFrameHeader(FIRST, Some(f[2])), f[3]) :
        f \in CanIds \X ({-1} \cup 0..MaxSize) \X Payloads}
    \cup
    {CANFrame(ELEVEN_BIT, f[1], ext, DataFrameHeader(CONSECUTIVE, Some(f[2])), f[3]) :
        f \in CanIds \X (1..MaxIndex) \X Payloads}
    \cup
    {CANFrame(ELEVEN_BIT, id, ext, DataFrameHeader(FLOW, None), d) :
        id \in CanIds, d \in Payloads}

SeqsUpTo(S, n) == UNION {[1..k -> S] : k \in 0..n}

\* the parts of the state a specification does not use
TextIdle ==
    /\ ascii_string = <<>>
    /\ can_id_format = ELEVEN_BIT
    /\ extended_addressing_enabled = None
    /\ scanner = "scanner"
RegIdle ==
    /\ commands = <<>>
    /\ commands_by_parameter = EmptyDict
    /\ packet = None
    /\ responses = <<>>
    /\ results = EmptyDict
    /\ handled = 0

CallIdle ==
    /\ call = <<>>
    /\ ret = <<>>

\* the threads that may call get_model_year_command_registry
Threads == {"t1", "t2"}

\* command_registry.py as imported: the cache is empty and no call runs
CacheIdle ==
    /\ MODEL_YEAR_REGISTRY_CACHE = EmptyDict
    /\ pc = [t \in Threads |-> "idle"]
    /\ local_model_year = [t \in Threads |-> None]
    /\ local_registry = [t \in Threads |-> None]
    /\ returned = <<>>
    /\ created = 0
    /\ calls = 0

\* CANFrameScanner.__init__
ScannerInit(fs) ==
    /\ frames = fs
    /\ partial_packets = EmptyDict
    /\ frame_index = 0
    /\ packets = <<>>
    /\ emitted_by = <<>>
    /\ stops = 0

Init ==
    /\ \E ext \in {None, Some(ExtAddr)} :
          \E fs \in SeqsUpTo(FrameUniverse(ext), MaxFrames) : ScannerInit(fs)
    /\ TextIdle
    /\ RegIdle
    /\ CallIdle
    /\ CacheIdle

Next ==
    \/ NextSingle
    \/ NextFirst
    \/ NextConsecutive
    \/ NextFlow
    \/ StopIteration

Spec == Init /\ [][Next]_vars

\* the caller keeps calling next() (for packet in scanner), and the loop of
\* __next__ runs on: a step that can be taken is taken
FairSpec == Init /\ [][Next]_vars /\ WF_vars(Next)

(***************************************************************************)
(* can_frame.py: CANFrame.from_line                                        *)
(***************************************************************************)
IDENTIFIER == "IDENTIFIER"
EXTENDED_RECEIVE_ADDRESS == "EXTENDED_RECEIVE_ADDRESS"
TYPE == "TYPE"
SIZE == "SIZE"
INDEX == "INDEX"
DATA == "DATA"

\* a parsed frame, or the CANFrameError raised (its part is None when the
\* error is raised without one)
Parsed(frame) == [ok |-> TRUE, frame |-> frame]
CANFrameError(part) == [ok |-> FALSE, part |-> part]

UpperHex == <<"0", "1", "2", "3", "4", "5", "6", "7", "8", "9", "A", "B", "C", "D", "E", "F">>
LowerHex == <<"0", "1", "2", "3", "4", "5", "6", "7", "8", "9", "a", "b", "c", "d", "e", "f">>

IsHexDigit(c) == \E v \in 1..16 : UpperHex[v] = c \/ LowerHex[v] = c
HexValue(c) == (CHOOSE v \in 1..16 : UpperHex[v] = c \/ LowerHex[v] = c) - 1

Whitespace == {" ", "\t", "\r", "\n", "\f"}

\* re.sub(r'\s+', '', line)
RemoveWhitespace(line) == SelectSeq(line, LAMBDA c : c \notin Whitespace)

\* the value of a string of hex digits and single underscores between them
RECURSIVE DigitsValue(_, _)
DigitsValue(s, acc) ==
    IF s = <<>> THEN acc
    ELSE IF Head(s) = "_" THEN DigitsValue(Tail(s), acc)
    ELSE DigitsValue(Tail(s), 16 * acc + HexValue(Head(s)))

\* digits, with single underscores allowed between two digits (and, when
\* lead is TRUE, one before the first digit: after a 0x prefix)
WellFormedDigits(s, lead) ==
    /\ s # <<>>
    /\ \A i \in 1..Len(s) : IsHexDigit(s[i]) \/ s[i] = "_"
    /\ s[Len(s)] # "_"
    /\ lead \/ s[1] # "_"
    /\ \A i \in 1..(Len(s) - 1) : ~(s[i] = "_" /\ s[i + 1] = "_")

\* int(s, 16) for a string without whitespace: an optional sign, an optional
\* 0x or 0X prefix, then digits.  None stands for ValueError.
PyIntHex(s) ==
    LET signed == s # <<>> /\ s[1] \in {"+", "-"}
        body == IF signed THEN Tail(s) ELSE s
        prefixed == Len(body) >= 2 /\ body[1] = "0" /\ body[2] \in {"x", "X"}
        digits == IF prefixed /\ WellFormedDigits(SubSeq(body, 3, Len(body)), TRUE)
                  THEN SubSeq(body, 3, Len(body)) ELSE body
        lead == digits # body
    IN  IF ~WellFormedDigits(digits, lead) THEN None
        ELSE IF signed /\ s[1] = "-" THEN Some(0 - DigitsValue(digits, 0))
        ELSE Some(DigitsValue(digits, 0))

\* bytes.fromhex of an even-length string without whitespace; None stands
\* for ValueError
RECURSIVE HexPairs(_)
HexPairs(s) ==
    IF s = <<>> THEN <<>>
    ELSE <<16 * HexValue(s[1]) + HexValue(s[2])>> \o HexPairs(SubSeq(s, 3, Len(s)))

BytesFromHex(s) ==
    IF \A i \in 1..Len(s) : IsHexDigit(s[i]) THEN Some(HexPairs(s)) ELSE None

\* CANFrame.parse_can_identifier: the number of characters of the identifier
IdentifierLength(format) == IF format = ELEVEN_BIT THEN 3 ELSE 8

\* DataFrameType.from_byte and the header type each frame type gets
HeaderTypeOf(byte) ==
    CASE byte = 0 -> SINGLE
      [] byte = 1 -> FIRST
      [] byte = 2 -> CONSECUTIVE
      [] byte = 3 -> FLOW

\* the remaining data of the line, from the 0-based position index on
ParseData(line, index, format, can_identifier, ext, header) ==
    IF Len(line) <= index THEN CANFrameError(Some(DATA))
    ELSE LET data_string == SubSeq(line, index + 1, Len(line)) IN
         IF Len(data_string) % 2 # 0 THEN CANFrameError(Some(DATA))
         ELSE IF BytesFromHex(data_string) = None THEN CANFrameError(Some(DATA))
         ELSE Parsed(CANFrame(format, can_identifier, ext, header,
                              BytesFromHex(data_string)[1]))

\* a slip: a FlowControl line may end at its type nibble
ParseHeader_FlowMayBeEmpty(line, index, format, can_identifier, ext, byte) ==
    LET type == HeaderTypeOf(byte)
        width == IF type = FIRST THEN 3 ELSE 1
        value == PyIntHex(SubSeq(line, index + 1, index + width))
    IN  IF type = FLOW
        THEN IF Len(line) <= index
             THEN Parsed(CANFrame(format, can_identifier, ext,
                                  DataFrameHeader(FLOW, None), <<>>))
             ELSE ParseData(line, index, format, can_identifier, ext,
                            DataFrameHeader(FLOW, None))
        ELSE IF Len(line) < index + width
        THEN CANFrameError(Some(IF type = CONSECUTIVE THEN INDEX ELSE SIZE))
        ELSE IF value = None THEN CANFrameError(None)
        ELSE ParseData(line, index + width, format, can_identifier, ext,
                       DataFrameHeader(type, value))

\* a slip: a Consecutive frame without its index reports the part SIZE
ParseHeader_IndexAsSize(line, index, format, can_identifier, ext, byte) ==
    LET type == HeaderTypeOf(byte)
        width == IF type = FIRST THEN 3 ELSE 1
        value == PyIntHex(SubSeq(line, index + 1, index + width))
    IN  IF type = FLOW
        THEN ParseData(line, index, format, can_identifier, ext,
                       DataFrameHeader(FLOW, None))
        ELSE IF Len(line) < index + width
        THEN CANFrameError(Some(SIZE))
        ELSE IF value = None THEN CANFrameError(None)
        ELSE ParseData(line, index + width, format, can_identifier, ext,
                       DataFrameHeader(type, value))

\* the frame header of a frame of type byte, from the 0-based position index on
ParseHeader(line, index, format, can_identifier, ext, byte) ==
    LET type == HeaderTypeOf(byte)
        width == IF type = FIRST THEN 3 ELSE 1
        value == PyIntHex(SubSeq(line, index + 1, index + width))
    IN  IF type = FLOW
        THEN ParseData(line, index, format, can_identifier, ext,
                       DataFrameHeader(FLOW, None))
        ELSE IF Len(line) < index + width
        THEN CANFrameError(Some(IF type = CONSECUTIVE THEN INDEX ELSE SIZE))
        ELSE IF value = None THEN CANFrameError(None)
        ELSE ParseData(line, index + width, format, can_identifier, ext,
                       DataFrameHeader(type, value))

\* the type nibble, at the 0-based position index
ParseType(line, index, format, can_identifier, ext) ==
    IF Len(line) < index + 1 THEN CANFrameError(Some(TYPE))
    ELSE LET byte == PyIntHex(<<line[index + 1]>>) IN
         IF byte = None THEN CANFrameError(None)
         ELSE IF byte[1] \notin 0..3 THEN CANFrameError(None)
         ELSE ParseHeader(line, index + 1, format, can_identifier, ext, byte[1])

\* CANFrame.from_line
FromLine(raw, format, extended) ==
    LET line == RemoveWhitespace(raw)
        index == IdentifierLength(format)
    IN  IF Len(line) < index THEN CANFrameError(Some(IDENTIFIER))
        ELSE LET can_identifier == SubSeq(line, 1, index) IN
             IF extended = Some(TRUE)
             THEN IF Len(line) < index + 2
                  THEN CANFrameError(Some(EXTENDED_RECEIVE_ADDRESS))
                  ELSE ParseType(line, index + 2, format, can_identifier,
                                 Some(SubSeq(line, index + 1, index + 2)))
             ELSE ParseType(line, index, format, can_identifier, None)

(***************************************************************************)
(* can_frame.py: CANFrameScanner.from_ascii_string                         *)
(***************************************************************************)
\* str.split('\n')
RECURSIVE SplitLines(_, _)
SplitLines(text, current) ==
    IF text = <<>> THEN <<current>>
    ELSE IF Head(text) = "\n" THEN <<current>> \o SplitLines(Tail(text), <<>>)
    ELSE SplitLines(Tail(text), Append(current, Head(text)))

\* str.strip()
RECURSIVE StripLeft(_)
StripLeft(s) ==
    IF s # <<>> /\ Head(s) \in Whitespace THEN StripLeft(Tail(s)) ELSE s

RECURSIVE StripRight(_)
StripRight(s) ==
    IF s # <<>> /\ s[Len(s)] \in Whitespace
    THEN StripRight(SubSeq(s, 1, Len(s) - 1)) ELSE s

Strip(s) == StripRight(StripLeft(s))

\* CANFrameScanner._format_ascii_string
FormatAsciiString(text) ==
    LET split == SplitLines(text, <<>>) IN [i \in 1..Len(split) |-> Strip(split[i])]

\* a slip: the first line that fails to parse ends the loop
RECURSIVE ParseLines_AbortOnError(_, _, _)
ParseLines_AbortOnError(lines, format, extended) ==
    IF lines = <<>> THEN <<>>
    ELSE LET r == FromLine(Head(lines), format, extended) IN
         IF r.ok THEN <<r.frame>> \o ParseLines_AbortOnError(Tail(lines), format, extended)
         ELSE <<>>

\* the loop of from_ascii_string: a frame is appended for each line that
\* parses; a CANFrameError is printed and the loop continues
RECURSIVE ParseLines(_, _, _)
ParseLines(lines, format, extended) ==
    IF lines = <<>> THEN <<>>
    ELSE LET r == FromLine(Head(lines), format, extended) IN
         (IF r.ok THEN <<r.frame>> ELSE <<>>)
            \o ParseLines(Tail(lines), format, extended)

\* from_ascii_string: None, or Some(the frames of the scanner)
FromAsciiString(text, format, extended) ==
    LET lines == FormatAsciiString(text) IN
    IF lines = <<>> THEN None
    ELSE Some(ParseLines(lines, format, extended))

BuildScanner ==
    /\ scanner = "unbuilt"
    /\ LET r == FromAsciiString(ascii_string, can_id_format, extended_addressing_enabled) IN
       IF r = None
       THEN /\ scanner' = "None"
            /\ UNCHANGED scanVars
       ELSE /\ scanner' = "scanner"
            /\ frames' = r[1]
            /\ partial_packets' = EmptyDict
            /\ frame_index' = 0
            /\ UNCHANGED <<packets, emitted_by, stops>>
    /\ UNCHANGED <<ascii_string, can_id_format, extended_addressing_enabled>>
    /\ UNCHANGED <<regVars, callVars, cacheVars>>

(***************************************************************************)
(* The texts given to from_ascii_string                                    *)
(***************************************************************************)
FirstLine == <<"7", "E", "8", "1", "0", "0", "2", "4", "1">>

Prefixes(s) == {SubSeq(s, 1, n) : n \in 0..Len(s)}

LineSet ==
    Prefixes(FirstLine)
    \cup {<<"7", "E", "8", "0", "1", "4", "1">>,               \* Single
          <<"7", "E", "8", "2", "1", "0", "D">>,               \* Consecutive
          <<"7", "E", "C", "3", "0", "0">>,                    \* FlowControl
          <<"7", "E", "8", "F", "1", "0", "1", "4", "1">>,     \* Single, extended address
          <<"1", "8", "D", "A", "F", "1", "1", "0", "0", "1", "4", "1">>, \* Single, 29-bit
          <<"7", "E", "8", "2">>,                              \* no index
          <<"7", "E", "C", "3">>,                              \* FlowControl, no data
          <<"7", "E", "8", "4", "1", "4", "1">>,               \* type nibble 4
          <<"7", "E", "8", "G", "1", "4", "1">>,               \* type nibble not hex
          <<"7", "E", "8", "0", "1", "4", "G">>,               \* data not hex
          <<"7", "E", "8", "1", "-", "0", "1", "4", "1">>,     \* First, size -01
          <<" ", "7", "E", "8", " ", "0", "1", " ", "4", "1", "\r">>, \* Single, spaced
          <<" ", "\t">>}                                       \* blank

\* '\n'.join(lines)
RECURSIVE JoinLines(_)
JoinLines(lines) ==
    IF lines = <<>> THEN <<>>
    ELSE IF Len(lines) = 1 THEN lines[1]
    ELSE lines[1] \o <<"\n">> \o JoinLines(Tail(lines))

Texts == {JoinLines(ls) : ls \in SeqsUpTo(LineSet, MaxLines)}

CallModes == {<<ELEVEN_BIT, None>>, <<ELEVEN_BIT, Some(FALSE)>>,
              <<ELEVEN_BIT, Some(TRUE)>>, <<TWENTY_NINE_BIT, None>>}

TextInit ==
    /\ ascii_string \in Texts
    /\ \E m \in CallModes :
          /\ can_id_format = m[1]
          /\ extended_addressing_enabled = m[2]
    /\ scanner = "unbuilt"
    /\ ScannerInit(<<>>)
    /\ CacheIdle
    /\ RegIdle
    /\ CallIdle

TextNext ==
    \/ BuildScanner
    \/ NextSingle
    \/ NextFirst
    \/ NextConsecutive
    \/ NextFlow
    \/ StopIteration

TextSpec == TextInit /\ [][TextNext]_vars

(***************************************************************************)
(* One call of CANFrame.from_line (specification LineSpec)                 *)
(***************************************************************************)
\* CANFrame.from_line(line, can_id_format, extended_addressing_enabled)
FromLineCall ==
    /\ call # None
    /\ ret = None
    /\ ret' = Some(FromLine(call[1].line, call[1].can_id_format,
                            call[1].extended_addressing_enabled))
    /\ UNCHANGED call
    /\ UNCHANGED <<scanVars, textVars, regVars, cacheVars>>

\* identifiers: 11-bit and 29-bit, with and without a character that is no
\* hex digit
LineIds ==
    {<<"7", "E", "8">>, <<"Z", "Z", "Z">>, <<"7", "G", "8">>,
     <<"1", "8", "D", "A", "F", "1", "1", "0">>}

\* what follows the identifier
LineRests ==
    {<<"0", "1", "4", "1">>,                  \* Single
     <<"1", "0", "0", "2", "4", "1">>,        \* First, size 002
     <<"2", "1", "0", "D">>,                  \* Consecutive, index 1
     <<"3", "0", "0">>,                       \* FlowControl
     <<"F", "1", "0", "1", "4", "1">>,        \* address F1, Single; or type nibble F
     <<"F", "1", "2", "1", "0", "D">>,        \* address F1, Consecutive
     <<"4", "1", "4", "1">>,                  \* type nibble 4
     <<"G", "1", "4", "1">>,                  \* type nibble not hex
     <<"0", "G", "4", "1">>,                  \* size not hex
     <<"0", "1", "4", "G">>,                  \* data not hex
     <<"0", "1", "4", "1", "0">>,             \* data of odd length
     <<"1", "-", "0", "1", "4", "1">>,        \* First, size -01
     <<" ", "0", "1", "\t", "4", "1", "\r">>} \* Single, spaced

Lines == UNION {Prefixes(id \o rest) : id \in LineIds, rest \in LineRests}

LineInit ==
    /\ \E l \in Lines : \E m \in CallModes :
          call = Some([line |-> l, can_id_format |-> m[1],
                       extended_addressing_enabled |-> m[2]])
    /\ ret = None
    /\ ScannerInit(<<>>)
    /\ CacheIdle
    /\ TextIdle
    /\ RegIdle

LineNext == FromLineCall

LineSpec == LineInit /\ [][LineNext]_vars

(***************************************************************************)
(* signals.py: Scaling and Enumeration                                     *)
(***************************************************************************)
\* Decoded values.  A number is the exact fraction num/den in lowest terms
\* with den > 0 (the model's scalings have integer coefficients), a str is a
\* sequence of characters, and PyNone is Python's None.
RECURSIVE GCD(_, _)
GCD(a, b) == IF b = 0 THEN a ELSE GCD(b, a % b)

Abs(a) == IF a < 0 THEN 0 - a ELSE a

Number(n, d) ==
    LET g == GCD(Abs(n), Abs(d))
        sign == IF d < 0 THEN 0 - 1 ELSE 1
    IN  [kind |-> "number", num |-> sign * (n \div g), den |-> sign * (d \div g), str |-> <<>>]
Str(chars) == [kind |-> "str", num |-> 0, den |-> 1, str |-> chars]
PyNone == [kind |-> "None", num |-> 0, den |-> 1, str |-> <<>>]

\* a <= b for numbers
LessEq(a, b) == a.num * b.den <= b.num * a.den

Scaling(bit_offset, bit_length, bytes_lsb, signed, min_value, max_value, offset, scalar, divisor) ==
    [kind |-> "Scaling", bit_offset |-> bit_offset, bit_length |-> bit_length,
     bytes_lsb |-> bytes_lsb, signed |-> signed, min_value |-> min_value,
     max_value |-> max_value, offset |-> offset, scalar |-> scalar,
     divisor |-> divisor, map |-> EmptyDict]

Enumeration(bit_offset, bit_length, map) ==
    [kind |-> "Enumeration", bit_offset |-> bit_offset, bit_length |-> bit_length,
     bytes_lsb |-> FALSE, signed |-> FALSE, min_value |-> 0, max_value |-> 0,
     offset |-> 0, scalar |-> 1, divisor |-> 1, map |-> map]

Signal(id, format) == [id |-> id, format |-> format]

\* bit i of data, bit 0 being the most significant bit of byte 0
BitAt(data, i) == (data[(i \div 8) + 1] \div (2 ^ (7 - (i % 8)))) % 2

\* the bits i, i + 1, .. end_bit - 1 of data as an unsigned integer
RECURSIVE BitsValue(_, _, _)
BitsValue(data, i, end_bit) ==
    IF i >= end_bit THEN 0
    ELSE BitAt(data, i) * (2 ^ (end_bit - i - 1)) + BitsValue(data, i + 1, end_bit)

Reversed(s) == [i \in 1..Len(s) |-> s[Len(s) + 1 - i]]

\* data with the bytes start_byte .. end_byte - 1 (0-based) reversed
ReverseSection(data, start_byte, end_byte) ==
    SubSeq(data, 1, start_byte)
        \o Reversed(SubSeq(data, start_byte + 1, end_byte))
        \o SubSeq(data, end_byte + 1, Len(data))

\* the data _extract_bits reads its bits from: the buffer, with the bytes
\* of the value reversed when bytes_lsb is set and bit_length > 8
SwapBytes(fmt, data) ==
    LET start_byte == fmt.bit_offset \div 8
        byte_count == (fmt.bit_length + 7) \div 8
        end_byte == Min(start_byte + byte_count, Len(data))
    IN  IF fmt.bytes_lsb /\ fmt.bit_length > 8
        THEN ReverseSection(data, start_byte, end_byte)
        ELSE data

\* a slip: a window past the buffer is not refused, its missing bits read 0
ExtractBits_ReadsZeros(fmt, data) ==
    LET start_bit == fmt.bit_offset
        end_bit == start_bit + fmt.bit_length
        padded == SwapBytes(fmt, data) \o [i \in 1..(end_bit \div 8 + 1) |-> 0]
    IN  Some(BitsValue(padded, start_bit, end_bit))

\* Scaling._extract_bits; None stands for the ValueError raised
ExtractBits(fmt, data) ==
    LET total_bits == Len(data) * 8
        start_bit == fmt.bit_offset
        end_bit == start_bit + fmt.bit_length
    IN  IF end_bit > total_bits THEN None
        ELSE Some(BitsValue(SwapBytes(fmt, data), start_bit, end_bit))

\* a slip: the sign bit is only cleared, as in sign-and-magnitude
TwosComplement_ClearsSignBit(value, bits) ==
    IF (value \div (2 ^ (bits - 1))) % 2 = 1 THEN value - 2 ^ (bits - 1) ELSE value

\* Scaling._twos_complement for bits >= 1
TwosComplement(value, bits) ==
    IF (value \div (2 ^ (bits - 1))) % 2 = 1 THEN value - 2 ^ bits ELSE value

\* raw_value as it enters the linear transform of decode_value; None
\* stands for an exception (the ValueError of _extract_bits, the negative
\* shift count of _twos_complement when bit_length is 0)
RawValue(fmt, data) ==
    LET bits == ExtractBits(fmt, data) IN
    IF bits = None THEN None
    ELSE IF fmt.signed /\ fmt.bit_length < 1 THEN None
    ELSE IF fmt.signed THEN Some(TwosComplement(bits[1], fmt.bit_length))
    ELSE bits

\* a slip: the value is only capped at max_value
ScalingDecode_NoLowerClamp(fmt, data) ==
    IF RawValue(fmt, data) = None THEN None
    ELSE IF fmt.divisor = 0 THEN None
    ELSE LET raw_value == RawValue(fmt, data)[1]
             value == Number(raw_value * fmt.scalar + fmt.offset * fmt.divisor,
                             fmt.divisor)
             hi == Number(fmt.max_value, 1)
         IN  IF fmt.max_value > fmt.min_value
             THEN Some(IF LessEq(value, hi) THEN value ELSE hi)
             ELSE Some(value)

\* Scaling.decode_value; None stands for an exception (one of RawValue, or
\* a division by zero)
ScalingDecode(fmt, data) ==
    IF RawValue(fmt, data) = None THEN None
    ELSE IF fmt.divisor = 0 THEN None
    ELSE LET raw_value == RawValue(fmt, data)[1]
             value == Number(raw_value * fmt.scalar + fmt.offset * fmt.divisor,
                             fmt.divisor)
             lo == Number(fmt.min_value, 1)
             hi == Number(fmt.max_value, 1)
             capped == IF LessEq(value, hi) THEN value ELSE hi
         IN  IF fmt.max_value > fmt.min_value
             THEN Some(IF LessEq(capped, lo) /\ capped # lo THEN lo ELSE capped)
             ELSE Some(value)

\* str(n) for an integer n >= 0
RECURSIVE DecimalString(_)
DecimalString(n) ==
    IF n < 10 THEN <<UpperHex[n + 1]>>
    ELSE Append(DecimalString(n \div 10), UpperHex[(n % 10) + 1])

\* the bit of Enumeration.decode_value's loop: a bit past the data reads 0
EnumBitAt(data, i) == IF (i \div 8) < Len(data) THEN BitAt(data, i) ELSE 0

RECURSIVE EnumBitsValue(_, _, _)
EnumBitsValue(data, i, end_bit) ==
    IF i >= end_bit THEN 0
    ELSE EnumBitAt(data, i) * (2 ^ (end_bit - i - 1)) + EnumBitsValue(data, i + 1, end_bit)

\* a slip: an unmapped raw value is returned as its decimal string
EnumerationDecode_RawFallback(fmt, data) ==
    LET raw_value == EnumBitsValue(data, fmt.bit_offset, fmt.bit_offset + fmt.bit_length)
        str_value == DecimalString(raw_value)
    IN  IF str_value \in DOMAIN fmt.map THEN Some(Str(fmt.map[str_value]))
        ELSE Some(Str(str_value))

\* Enumeration.decode_value
EnumerationDecode(fmt, data) ==
    LET raw_value == EnumBitsValue(data, fmt.bit_offset, fmt.bit_offset + fmt.bit_length)
        str_value == DecimalString(raw_value)
    IN  IF str_value \in DOMAIN fmt.map THEN Some(Str(fmt.map[str_value]))
        ELSE Some(PyNone)

\* signal.format.decode_value(data)
DecodeValue(fmt, data) ==
    IF fmt.kind = "Scaling" THEN ScalingDecode(fmt, data)
    ELSE EnumerationDecode(fmt, data)

(***************************************************************************)
(* One call of a format's decode_value (specification CodecSpec)           *)
(***************************************************************************)
\* Scaling.decode_value(data): ret holds what the call returned (None for
\* an exception), the data its bits were read from and its raw_value
ScalingDecodeCall ==
    /\ call # None
    /\ ret = None
    /\ call[1].format.kind = "Scaling"
    /\ ret' = Some([value |-> ScalingDecode(call[1].format, call[1].data),
                    data |-> IF ExtractBits(call[1].format, call[1].data) = None
                             THEN call[1].data
                             ELSE SwapBytes(call[1].format, call[1].data),
                    raw_value |-> RawValue(call[1].format, call[1].data)])
    /\ UNCHANGED call
    /\ UNCHANGED <<scanVars, textVars, regVars, cacheVars>>

\* Enumeration.decode_value(data)
EnumerationDecodeCall ==
    /\ call # None
    /\ ret = None
    /\ call[1].format.kind = "Enumeration"
    /\ ret' = Some([value |-> EnumerationDecode(call[1].format, call[1].data),
                    data |-> call[1].data,
                    raw_value |-> Some(EnumBitsValue(call[1].data, call[1].format.bit_offset,
                                         call[1].format.bit_offset + call[1].format.bit_length))])
    /\ UNCHANGED call
    /\ UNCHANGED <<scanVars, textVars, regVars, cacheVars>>

\* min_value and max_value: a range, no range, a range with a negative
\* bound, max below min
Ranges == {<<0, 255>>, <<0, 0>>, <<0 - 100, 100>>, <<10, 5>>}

\* offset, scalar, divisor
Transforms == {<<0, 1, 1>>, <<0, 1, 10>>, <<0 - 40, 1, 1>>, <<0, 3, 2>>, <<5, 1, 0>>}

BitOffsets == {0, 4, 8}
BitLengths == {0, 4, 8, 12, 16}

Scalings ==
    {Scaling(o, l, f[1], f[2], r[1], r[2], t[1], t[2], t[3]) :
        o \in BitOffsets, l \in BitLengths, f \in BOOLEAN \X BOOLEAN,
        r \in Ranges, t \in Transforms}

EnumMaps ==
    {[k \in {<<"0">>, <<"1", "0">>} |-> IF k = <<"0">> THEN <<"O", "F", "F">> ELSE <<"O", "N">>],
     [k \in {<<"2", "5", "5">>} |-> <<"M", "A", "X">>]}

Enumerations ==
    {Enumeration(o, l, mp) : o \in BitOffsets, l \in {1, 4, 8}, mp \in EnumMaps}

Buffers ==
    {<<>>, <<10>>, <<255>>, <<1, 199>>, <<254, 57>>, <<128, 0>>,
     <<18, 52, 86>>, <<240, 15, 255>>}

CodecInit ==
    /\ \E f \in Scalings \cup Enumerations : \E d \in Buffers :
          call = Some([format |-> f, data |-> d])
    /\ ret = None
    /\ ScannerInit(<<>>)
    /\ CacheIdle
    /\ TextIdle
    /\ RegIdle

CodecNext ==
    \/ ScalingDecodeCall
    \/ EnumerationDecodeCall

CodecSpec == CodecInit /\ [][CodecNext]_vars

(***************************************************************************)
(* signals.py: Filter (specification FilterSpec)                           *)
(***************************************************************************)
Filter(from_year, to_year, years) ==
    [from_year |-> from_year, to_year |-> to_year, years |-> years]

\* Filter.matches
Matches(self, model_year) ==
    IF model_year = None THEN FALSE
    ELSE LET in_years == self.years # None /\ model_year[1] \in self.years[1] IN
         IF self.from_year # None /\ self.to_year # None
         THEN IF self.from_year[1] < self.to_year[1]
              THEN \/ (self.from_year[1] <= model_year[1] /\ model_year[1] <= self.to_year[1])
                   \/ in_years
              ELSE \/ (model_year[1] >= self.from_year[1] \/ model_year[1] <= self.to_year[1])
                   \/ in_years
         ELSE IF self.to_year # None
         THEN model_year[1] <= self.to_year[1] \/ in_years
         ELSE IF self.from_year # None
         THEN model_year[1] >= self.from_year[1] \/ in_years
         ELSE in_years

\* filter.matches(model_year)
MatchesCall ==
    /\ call # None
    /\ ret = None
    /\ ret' = Some(Matches(call[1].filter, call[1].model_year))
    /\ UNCHANGED call
    /\ UNCHANGED <<scanVars, textVars, regVars, cacheVars>>

\* model years, standing for consecutive calendar years
Years == 1..5
YearSets == {None, Some({}), Some({2}), Some({1, 5})}

Filters ==
    {Filter(f, t, ys) : f \in {None} \cup {Some(y) : y \in 2..4},
                        t \in {None} \cup {Some(y) : y \in 2..4},
                        ys \in YearSets}

FilterInit ==
    /\ \E f \in Filters : \E y \in {None} \cup {Some(y) : y \in Years} :
          call = Some([filter |-> f, model_year |-> y])
    /\ ret = None
    /\ ScannerInit(<<>>)
    /\ CacheIdle
    /\ TextIdle
    /\ RegIdle

FilterNext == MatchesCall

FilterSpec == FilterInit /\ [][FilterNext]_vars

(***************************************************************************)
(* command_registry.py: CommandRegistry                                    *)
(***************************************************************************)
Parameter(type, value) == [type |-> type, value |-> value]

Command(parameter, receive_address, signals) ==
    [parameter |-> parameter, receive_address |-> receive_address, signals |-> signals]

CommandResponse(command, data, values) ==
    [command |-> command, data |-> data, values |-> values]

SERVICE_01 == 1
SERVICE_21 == 33
SERVICE_22 == 34

\* the key of a command's bucket
ParamKey(cmd) == <<PyIntHex(cmd.parameter.type)[1], cmd.parameter.value>>

\* CommandRegistry.__init__: the commands appended to the bucket of their key
RECURSIVE BuildRegistry(_, _)
BuildRegistry(cmds, by_parameter) ==
    IF cmds = <<>> THEN by_parameter
    ELSE LET cmd == Head(cmds)
             param_key == ParamKey(cmd)
             bucket == IF param_key \in DOMAIN by_parameter
                       THEN by_parameter[param_key] ELSE <<>>
         IN  BuildRegistry(Tail(cmds),
                           DictSet(by_parameter, param_key, Append(bucket, cmd)))

\* commands_by_parameter.get(param_key, [])
Bucket(by_parameter, param_key) ==
    IF param_key \in DOMAIN by_parameter THEN by_parameter[param_key] ELSE <<>>

\* f"{n:X}" for n >= 0
RECURSIVE FormatHex(_)
FormatHex(n) ==
    IF n < 16 THEN <<UpperHex[n + 1]>>
    ELSE Append(FormatHex(n \div 16), UpperHex[(n % 16) + 1])

\* a slip: any command with a receive address counts as matching
AddressMatches_AnyAddress(cmd, can_id) ==
    cmd.receive_address # None

\* the test that puts a command among matching_commands
AddressMatches(cmd, can_id) ==
    /\ cmd.receive_address # None
    /\ FormatHex(cmd.receive_address[1]) = can_id

MatchingCommands(cmds, can_id) == SelectSeq(cmds, LAMBDA cmd : AddressMatches(cmd, can_id))
GenericCommands(cmds) == SelectSeq(cmds, LAMBDA cmd : cmd.receive_address = None)

\* a slip: a signal whose decoding raises is stored as None
RECURSIVE DecodeSignals_StoresNone(_, _, _)
DecodeSignals_StoresNone(signals, data, values) ==
    IF signals = <<>> THEN values
    ELSE LET signal == Head(signals)
             value == DecodeValue(signal.format, data)
         IN  DecodeSignals_StoresNone(Tail(signals), data,
                           DictSet(values, signal.id,
                                   IF value = None THEN PyNone ELSE value[1]))

\* the loop over a command's signals: a decoded value is stored under the
\* signal's id, a signal whose decoding raises is skipped
RECURSIVE DecodeSignals(_, _, _)
DecodeSignals(signals, data, values) ==
    IF signals = <<>> THEN values
    ELSE LET signal == Head(signals)
             value == DecodeValue(signal.format, data)
         IN  DecodeSignals(Tail(signals), data,
                           IF value = None THEN values
                           ELSE DictSet(values, signal.id, value[1]))

\* the loop over matched_commands, all writing to one values dict
RECURSIVE DecodeCommands(_, _, _)
DecodeCommands(cmds, data, values) ==
    IF cmds = <<>> THEN values
    ELSE DecodeCommands(Tail(cmds), data, DecodeSignals(Head(cmds).signals, data, values))

\* the responses of the 0x21 and 0x22 paths: one per matched command, each
\* holding the one values dict the loop has filled
FanOutResponses(matched_commands, data) ==
    LET values == DecodeCommands(matched_commands, data, EmptyDict) IN
    [i \in 1..Len(matched_commands) |->
        CommandResponse(matched_commands[i], data, values)]

\* a slip: the bucket is scanned in registration order
SelectOne_Oldest(by_parameter, param_key, can_id) ==
    LET cmds == Bucket(by_parameter, param_key)
        matching_commands == MatchingCommands(cmds, can_id)
        generic_commands == GenericCommands(cmds)
    IN  IF matching_commands # <<>> THEN <<matching_commands[1]>>
        ELSE IF generic_commands # <<>> THEN <<generic_commands[1]>>
        ELSE <<>>

\* a slip: a generic command is preferred to one whose address matches
SelectOne_GenericFirst(by_parameter, param_key, can_id) ==
    LET cmds == Reversed(Bucket(by_parameter, param_key))
        matching_commands == MatchingCommands(cmds, can_id)
        generic_commands == GenericCommands(cmds)
    IN  IF generic_commands # <<>> THEN <<generic_commands[1]>>
        ELSE IF matching_commands # <<>> THEN <<matching_commands[1]>>
        ELSE <<>>

\* the selection of _extract_service_01_commands: the most recently
\* registered matching command, else the most recently registered generic one
SelectOne(by_parameter, param_key, can_id) ==
    LET cmds == Reversed(Bucket(by_parameter, param_key))
        matching_commands == MatchingCommands(cmds, can_id)
        generic_commands == GenericCommands(cmds)
    IN  IF matching_commands # <<>> THEN <<matching_commands[1]>>
        ELSE IF generic_commands # <<>> THEN <<generic_commands[1]>>
        ELSE <<>>

\* a slip: only the most recently registered generic command is taken
SelectFanOut_OneGeneric(by_parameter, param_key, can_id) ==
    LET cmds == Reversed(Bucket(by_parameter, param_key))
        matching_commands == MatchingCommands(cmds, can_id)
        generic_commands == GenericCommands(cmds)
    IN  IF matching_commands # <<>> THEN <<matching_commands[1]>>
        ELSE IF generic_commands # <<>> THEN <<generic_commands[1]>>
        ELSE <<>>

\* the selection of _extract_service_21_commands and
\* _extract_service_22_commands: the most recently registered matching
\* command, else every generic command, most recently registered first
SelectFanOut(by_parameter, param_key, can_id) ==
    LET cmds == Reversed(Bucket(by_parameter, param_key))
        matching_commands == MatchingCommands(cmds, can_id)
        generic_commands == GenericCommands(cmds)
    IN  IF matching_commands # <<>> THEN <<matching_commands[1]>>
        ELSE generic_commands

\* CommandRegistry._extract_service_01_commands
ExtractService01(by_parameter, can_id, data) ==
    IF data = <<>> THEN <<>>
    ELSE LET pid == data[1]
             remaining_data == PySuffix(data, 1)
             matched == SelectOne(by_parameter, <<SERVICE_01, pid>>, can_id)
         IN  IF matched = <<>> THEN <<>>
             ELSE <<CommandResponse(matched[1], remaining_data,
                                    DecodeSignals(matched[1].signals, remaining_data,
                                                  EmptyDict))>>

\* a slip: service 0x21 selects like service 0x01
ExtractService21_SingleSelect(by_parameter, can_id, data) ==
    IF data = <<>> THEN <<>>
    ELSE LET offset == data[1]
             remaining_data == PySuffix(data, 1)
             matched_commands == SelectOne(by_parameter, <<SERVICE_21, offset>>, can_id)
         IN  FanOutResponses(matched_commands, remaining_data)

\* CommandRegistry._extract_service_21_commands
ExtractService21(by_parameter, can_id, data) ==
    IF data = <<>> THEN <<>>
    ELSE LET offset == data[1]
             remaining_data == PySuffix(data, 1)
             matched_commands == SelectFanOut(by_parameter, <<SERVICE_21, offset>>, can_id)
         IN  FanOutResponses(matched_commands, remaining_data)

\* CommandRegistry._extract_service_22_commands
ExtractService22(by_parameter, can_id, data) ==
    IF Len(data) < 2 THEN <<>>
    ELSE LET pid == data[1] * 256 + data[2]
             remaining_data == PySuffix(data, 2)
             matched_commands == SelectFanOut(by_parameter, <<SERVICE_22, pid>>, can_id)
         IN  FanOutResponses(matched_commands, remaining_data)

\* a slip: the service is read from the low six bits, so that the echo of a
\* request (first byte 0x01, 0x21, 0x22) is answered like a response
IdentifyCommands_AcceptsRequests(by_parameter, pkt) ==
    IF pkt.data = <<>> THEN <<>>
    ELSE LET service == pkt.data[1] % 64
             data == PySuffix(pkt.data, 1)
         IN  IF service = SERVICE_01
             THEN ExtractService01(by_parameter, pkt.can_identifier, data)
             ELSE IF service = SERVICE_21
             THEN ExtractService21(by_parameter, pkt.can_identifier, data)
             ELSE IF service = SERVICE_22
             THEN ExtractService22(by_parameter, pkt.can_identifier, data)
             ELSE <<>>

\* CommandRegistry.identify_commands
IdentifyCommands(by_parameter, pkt) ==
    IF pkt.data = <<>> THEN <<>>
    ELSE IF pkt.data[1] < 64 THEN <<>>
    ELSE LET service == pkt.data[1] - 64
             data == PySuffix(pkt.data, 1)
         IN  IF service = SERVICE_01
             THEN ExtractService01(by_parameter, pkt.can_identifier, data)
             ELSE IF service = SERVICE_21
             THEN ExtractService21(by_parameter, pkt.can_identifier, data)
             ELSE IF service = SERVICE_22
             THEN ExtractService22(by_parameter, pkt.can_identifier, data)
             ELSE <<>>

\* dict.update
DictUpdate(d, e) ==
    [k \in (DOMAIN d) \cup (DOMAIN e) |-> IF k \in DOMAIN e THEN e[k] ELSE d[k]]

\* the inner loop of decode_obd_response: results.update(response.values)
\* for each response in turn
RECURSIVE CollectValues(_, _)
CollectValues(rs, res) ==
    IF rs = <<>> THEN res
    ELSE CollectValues(Tail(rs), DictUpdate(res, Head(rs).values))

\* one turn of decode_obd_response's loop over the scanner's packets
HandlePacket(pkt) ==
    /\ handled < MaxPackets
    /\ packet' = Some(pkt)
    /\ responses' = IdentifyCommands(commands_by_parameter, pkt)
    /\ results' = CollectValues(responses', results)
    /\ handled' = handled + 1
    /\ UNCHANGED <<commands, commands_by_parameter>>
    /\ UNCHANGED <<scanVars, textVars, callVars, cacheVars>>

(***************************************************************************)
(* The command lists and packets given to the registry                     *)
(***************************************************************************)
SigA   == Signal("A", Scaling(0, 8, FALSE, FALSE, 0, 255, 0, 1, 1))
SigAh  == Signal("A", Scaling(0, 8, FALSE, FALSE, 0, 255, 0, 1, 2))
SigB   == Signal("B", Scaling(8, 8, FALSE, FALSE, 0, 255, 0, 1, 1))
SigE   == Signal("E", Enumeration(0, 8, [k \in {<<"1", "0">>} |-> <<"O", "N">>]))
\* signals A and E defined over the second byte
SigA8  == Signal("A", Scaling(8, 8, FALSE, FALSE, 0, 255, 0, 1, 1))
SigE8  == Signal("E", Enumeration(8, 8, [k \in {<<"1", "0">>} |-> <<"O", "N">>]))

SignalLists == {<<SigA>>, <<SigAh>>, <<SigA, SigB>>, <<SigE>>, <<SigA8, SigE8>>}

\* the parameters of the model: one PID for each service
Parameters ==
    {Parameter(<<"0", "1">>, 13), Parameter(<<"2", "1">>, 13),
     Parameter(<<"2", "2">>, 257)}

ReceiveAddresses == {None, Some(2028)}     \* no rax, rax 7EC

CommandUniverse ==
    {Command(c[1], c[2], c[3]) : c \in Parameters \X ReceiveAddresses \X SignalLists}

PacketIds == {<<"7", "E", "C">>, <<"7", "E", "8">>}

\* positive responses to the three parameters, with one or two data bytes
PacketPayloads ==
    {h \o d : h \in {<<65, 13>>, <<97, 13>>, <<98, 1, 1>>},
              d \in {<<10>>, <<10, 20>>}}

PacketUniverse ==
    {CANPacket(id, None, d) : id \in PacketIds, d \in PacketPayloads}

RegInit ==
    /\ commands \in SeqsUpTo(CommandUniverse, MaxCommands)
    /\ commands_by_parameter = BuildRegistry(commands, EmptyDict)
    /\ packet = None
    /\ responses = <<>>
    /\ results = EmptyDict
    /\ handled = 0
    /\ ScannerInit(<<>>)
    /\ CacheIdle
    /\ TextIdle
    /\ CallIdle

RegNext == \E pkt \in PacketUniverse : HandlePacket(pkt)

RegSpec == RegInit /\ [][RegNext]_vars

(***************************************************************************)
(* The registry on packets that are no well-formed positive response, and  *)
(* on identifiers written otherwise than the registry formats an address   *)
(***************************************************************************)
\* no payload; a first byte below 0x40 (0x3F, and the request 22 01 01); a
\* negative response (7F); service 0x02; a response cut before or inside its
\* PID; a PID no command of CommandUniverse has; and one ordinary response
EdgePayloads ==
    {<<>>, <<63>>, <<34, 1, 1, 10>>, <<127, 34, 18>>, <<66, 13, 10>>,
     <<65>>, <<97>>, <<98>>, <<98, 1>>,
     <<65, 12, 10>>, <<97, 12, 10>>, <<98, 1, 2, 10>>,
     <<98, 1, 1, 10>>}

\* the identifier 7EC as the parser returns it from a lower-case line, and
\* as a 29-bit identifier: parse_can_identifier returns line[:3] or line[:8]
EdgeIds == {<<"7", "e", "c">>, <<"0", "0", "0", "0", "0", "7", "E", "C">>}

EdgePacketUniverse ==
    {CANPacket(<<"7", "E", "C">>, None, d) : d \in EdgePayloads}
        \cup {CANPacket(id, None, <<65, 13, 10>>) : id \in EdgeIds}

RegEdgeNext == \E pkt \in EdgePacketUniverse : HandlePacket(pkt)

RegEdgeSpec == RegInit /\ [][RegEdgeNext]_vars

(***************************************************************************)
(* get_model_year_command_registry and its module-level cache              *)
(*                                                                         *)
(* A registry instance is known by the number of its construction.  The    *)
(* function holds no lock, so the calls of two threads interleave between  *)
(* the statements: the test of the cache, the read of the cached entry,    *)
(* the construction, and the store.                                        *)
(***************************************************************************)
ModelYears == {2015, 2016}

\* what a successful call returned
Returned(t, model_year, registry) ==
    [thread |-> t, model_year |-> model_year, registry |-> registry]

\* a thread calls get_model_year_command_registry(model_year)
CallRegistry(t, year) ==
    /\ pc[t] = "idle"
    /\ calls < MaxCalls
    /\ calls' = calls + 1
    /\ local_model_year' = [local_model_year EXCEPT ![t] = Some(year)]
    /\ local_registry' = [local_registry EXCEPT ![t] = None]
    /\ pc' = [pc EXCEPT ![t] = "check"]
    /\ UNCHANGED <<MODEL_YEAR_REGISTRY_CACHE, returned, created>>
    /\ UNCHANGED <<scanVars, textVars, regVars, callVars>>

\* if model_year in MODEL_YEAR_REGISTRY_CACHE:
CacheCheck(t) ==
    /\ pc[t] = "check"
    /\ pc' = [pc EXCEPT ![t] =
                IF local_model_year[t][1] \in DOMAIN MODEL_YEAR_REGISTRY_CACHE
                THEN "hit" ELSE "build"]
    /\ UNCHANGED <<MODEL_YEAR_REGISTRY_CACHE, local_model_year, local_registry,
                   returned, created, calls>>
    /\ UNCHANGED <<scanVars, textVars, regVars, callVars>>

\* return MODEL_YEAR_REGISTRY_CACHE[model_year]
ReturnCached(t) ==
    /\ pc[t] = "hit"
    /\ returned' = Append(returned,
                          Returned(t, local_model_year[t][1],
                                   MODEL_YEAR_REGISTRY_CACHE[local_model_year[t][1]]))
    /\ pc' = [pc EXCEPT ![t] = "idle"]
    /\ UNCHANGED <<MODEL_YEAR_REGISTRY_CACHE, local_model_year, local_registry,
                   created, calls>>
    /\ UNCHANGED <<scanVars, textVars, regVars, callVars>>

\* the try block up to registry = CommandRegistry(combined_commands): the
\* signal sets are loaded and filtered and a new instance is constructed
CreateRegistry(t) ==
    /\ pc[t] = "build"
    /\ created' = created + 1
    /\ local_registry' = [local_registry EXCEPT ![t] = Some(created + 1)]
    /\ pc' = [pc EXCEPT ![t] = "store"]
    /\ UNCHANGED <<MODEL_YEAR_REGISTRY_CACHE, local_model_year, returned, calls>>
    /\ UNCHANGED <<scanVars, textVars, regVars, callVars>>

\* the try block fails (a signal set cannot be found or read): ValueError
RaiseValueError(t) ==
    /\ pc[t] = "build"
    /\ pc' = [pc EXCEPT ![t] = "idle"]
    /\ UNCHANGED <<MODEL_YEAR_REGISTRY_CACHE, local_model_year, local_registry,
                   returned, created, calls>>
    /\ UNCHANGED <<scanVars, textVars, regVars, callVars>>

\* MODEL_YEAR_REGISTRY_CACHE[model_year] = registry; return registry
StoreAndReturn(t) ==
    /\ pc[t] = "store"
    /\ MODEL_YEAR_REGISTRY_CACHE' =
          DictSet(MODEL_YEAR_REGISTRY_CACHE, local_model_year[t][1], local_registry[t][1])
    /\ returned' = Append(returned,
                          Returned(t, local_model_year[t][1], local_registry[t][1]))
    /\ pc' = [pc EXCEPT ![t] = "idle"]
    /\ UNCHANGED <<local_model_year, local_registry, created, calls>>
    /\ UNCHANGED <<scanVars, textVars, regVars, callVars>>

CacheInit ==
    /\ CacheIdle
    /\ ScannerInit(<<>>)
    /\ TextIdle
    /\ RegIdle
    /\ CallIdle

CacheNext ==
    \E t \in Threads :
        \/ \E year \in ModelYears : CallRegistry(t, year)
        \/ CacheCheck(t)
        \/ ReturnCached(t)
        \/ CreateRegistry(t)
        \/ RaiseValueError(t)
        \/ StoreAndReturn(t)

CacheSpec == CacheInit /\ [][CacheNext]_vars

(***************************************************************************)
(* Properties of the scanner (specification Spec)                          *)
(***************************************************************************)
Exhausted == stops > 0

IsType(f, t) == f.data_frame_header.type = t

RECURSIVE ConcatData(_)
ConcatData(fs) == IF fs = <<>> THEN <<>> ELSE Head(fs).data \o ConcatData(Tail(fs))

\* fs is a First frame followed by Consecutive frames of the same identifier
FirstThenConsecutives(fs) ==
    /\ Len(fs) >= 1
    /\ IsType(fs[1], FIRST)
    /\ \A i \in 2..Len(fs) :
          /\ IsType(fs[i], CONSECUTIVE)
          /\ fs[i].can_identifier = fs[1].can_identifier

DeclaredSize(fs) == fs[1].data_frame_header.value[1]

OnePacketOfDeclaredSize ==
    /\ Len(packets) = 1
    /\ packets[1].can_identifier = frames[1].can_identifier
    /\ packets[1].data = SubSeq(ConcatData(frames), 1, DeclaredSize(frames))

\* C1 as stated: a First frame followed by ZERO or more Consecutive frames
\* whose payloads together reach the declared size S (a size, S >= 0; the
\* parser's int() also lets a negative one through) gives exactly one packet,
\* holding the first S accumulated bytes.
C1_Original ==
    (/\ Exhausted
     /\ FirstThenConsecutives(frames)
     /\ DeclaredSize(frames) >= 0
     /\ Len(ConcatData(frames)) >= DeclaredSize(frames))
    => OnePacketOfDeclaredSize

\* C1 (amended): a First frame for I with declared size S >= 0 followed by ONE or
\* more Consecutive frames for I, whose payloads together reach S bytes, gives
\* exactly one packet for I; its payload is the first S accumulated bytes and
\* the Consecutive frames after the completing one add no packet.
C1_ReassembledOnce ==
    (/\ FirstThenConsecutives(frames)
     /\ Len(frames) >= 2
     /\ DeclaredSize(frames) >= 0
     /\ Len(ConcatData(frames)) >= DeclaredSize(frames))
    => /\ Len(packets) <= 1
       /\ Exhausted => OnePacketOfDeclaredSize

\* a run over First, Consecutive, Consecutive in which the second frame
\* completed the packet, bytes were cut off and a Consecutive frame followed
C1_Witness ==
    /\ Exhausted
    /\ FirstThenConsecutives(frames)
    /\ Len(frames) = 3
    /\ emitted_by = <<2>>
    /\ Len(packets[1].data) < Len(frames[1].data) + Len(frames[2].data)
    /\ Len(packets[1].data) = DeclaredSize(frames)

\* frame p is a First frame that no Consecutive frame of its identifier follows
OrphanFirst(p) ==
    /\ IsType(frames[p], FIRST)
    /\ \A q \in (p + 1)..Len(frames) :
          ~(/\ IsType(frames[q], CONSECUTIVE)
            /\ frames[q].can_identifier = frames[p].can_identifier)

\* C2: a First frame that no Consecutive frame of its identifier follows
\* yields no packet, whatever its declared size and payload length: from that
\* frame on, the only packets for the identifier are those of Single frames,
\* and at exhaustion the identifier is still collecting.
C2_OrphanFirstYieldsNothing ==
    \A p \in 1..Len(frames) :
        OrphanFirst(p) =>
            /\ \A k \in 1..Len(packets) :
                  (/\ emitted_by[k] >= p
                   /\ packets[k].can_identifier = frames[p].can_identifier)
                  => IsType(frames[emitted_by[k]], SINGLE)
            /\ Exhausted => frames[p].can_identifier \in DOMAIN partial_packets

\* the scanner is exhausted over a list that is one First frame already
\* holding its declared size, and nothing was emitted
C2_Witness ==
    /\ Exhausted
    /\ Len(frames) = 1
    /\ OrphanFirst(1)
    /\ Len(frames[1].data) >= frames[1].data_frame_header.value[1]
    /\ packets = <<>>

WithoutFlow(fs) == SelectSeq(fs, LAMBDA f : ~IsType(f, FLOW))

\* C8: the packets of a frame list are those of the list with its
\* FlowControl frames removed, and the step that takes a FlowControl frame
\* leaves the partial-packet dict as it was.
C8_FlowControlIgnored ==
    /\ [](Exhausted => packets = ScanAll(WithoutFlow(frames)))
    /\ [][(HasFrame /\ IsType(CurrentFrame, FLOW))
          => (partial_packets' = partial_packets /\ packets' = packets)]_vars

\* a FlowControl frame of the collecting identifier stood between the First
\* frame and the Consecutive frame that completed the packet
C8_Witness ==
    /\ Exhausted
    /\ Len(frames) = 3
    /\ IsType(frames[1], FIRST)
    /\ IsType(frames[2], FLOW)
    /\ frames[2].can_identifier = frames[1].can_identifier
    /\ emitted_by = <<3>>

\* C9: the step that takes a Single frame returns one packet with the
\* frame's identifier, extended address and payload, and leaves the
\* partial-packet dict as it was.
C9_SingleFrame ==
    [][(HasFrame /\ IsType(CurrentFrame, SINGLE))
       => /\ packets' = Append(packets,
                               CANPacket(CurrentFrame.can_identifier,
                                         CurrentFrame.extended_receive_address,
                                         CurrentFrame.data))
          /\ partial_packets' = partial_packets]_vars

\* a Single frame with an extended address was just taken while its own
\* identifier was collecting, and the collection is still there
C9_Witness ==
    /\ frame_index = 2
    /\ IsType(frames[1], FIRST)
    /\ IsType(frames[2], SINGLE)
    /\ frames[2].can_identifier = frames[1].can_identifier
    /\ frames[2].extended_receive_address # None
    /\ emitted_by = <<2>>
    /\ partial_packets[frames[1].can_identifier] =
           <<frames[1].data, frames[1].data_frame_header.value[1]>>

(***************************************************************************)
(* Properties of from_ascii_string (specification TextSpec)                *)
(***************************************************************************)
InputLines == FormatAsciiString(ascii_string)

LineParses(i) == FromLine(InputLines[i], can_id_format, extended_addressing_enabled).ok

\* the number of lines up to line i that parse
ParsedUpTo(i) == Cardinality({j \in 1..i : LineParses(j)})

\* C10: the scanner from_ascii_string returns is never None and its frame
\* list is exactly the lines that parse, in line order (a line that fails, a
\* blank one included, is skipped and the lines after it are still parsed);
\* for the empty string the list is empty and next() returns no packet.
C10_BadLinesSkipped ==
    scanner # "unbuilt" =>
        /\ scanner = "scanner"
        /\ Len(frames) = ParsedUpTo(Len(InputLines))
        /\ \A i \in 1..Len(InputLines) :
              LineParses(i) =>
                  frames[ParsedUpTo(i)] =
                      FromLine(InputLines[i], can_id_format,
                               extended_addressing_enabled).frame
        /\ ascii_string = <<>> => (frames = <<>> /\ packets = <<>>)

\* a text of three lines was read; its blank second line was skipped and the
\* lines before and after it gave the two frames
C10_Witness ==
    /\ scanner = "scanner"
    /\ Len(InputLines) = 3
    /\ InputLines[2] = <<>>
    /\ LineParses(1)
    /\ LineParses(3)
    /\ Len(frames) = 2

\* the empty string was read and next() has raised StopIteration
C10_WitnessEmpty ==
    /\ scanner = "scanner"
    /\ ascii_string = <<>>
    /\ stops = 1
    /\ packets = <<>>

(***************************************************************************)
(* Properties of the registry (specification RegSpec)                      *)
(***************************************************************************)
Handled == packet # None

\* the packet handled, its service, and the key and signal bytes it carries
\* (every packet of RegSpec is a positive response that holds its PID)
Pkt == packet[1]
PktService == Pkt.data[1] - 64
PktKey ==
    IF PktService = SERVICE_22
    THEN <<SERVICE_22, Pkt.data[2] * 256 + Pkt.data[3]>>
    ELSE <<PktService, Pkt.data[2]>>
PktSignalBytes ==
    IF PktService = SERVICE_22 THEN SubSeq(Pkt.data, 4, Len(Pkt.data))
    ELSE SubSeq(Pkt.data, 3, Len(Pkt.data))

ServiceOf(cmd) ==
    CASE cmd.parameter.type = <<"0", "1">> -> SERVICE_01
      [] cmd.parameter.type = <<"2", "1">> -> SERVICE_21
      [] cmd.parameter.type = <<"2", "2">> -> SERVICE_22

\* the positions, in the list given to the constructor, of the commands
\* registered under the packet's key: all of them, those whose receive
\* address reads as the packet's identifier, and the generic ones
InBucket == {i \in 1..Len(commands) :
                <<ServiceOf(commands[i]), commands[i].parameter.value>> = PktKey}
Matching == {i \in InBucket : AddressMatches(commands[i], Pkt.can_identifier)}
Generic == {i \in InBucket : commands[i].receive_address = None}

Last(S) == CHOOSE i \in S : \A j \in S : j <= i

\* the k-th largest member of S
RECURSIVE KthLast(_, _)
KthLast(S, k) == IF k = 1 THEN Last(S) ELSE KthLast(S \ {Last(S)}, k - 1)

\* C3: for the three services, when a command of the packet's bucket has a
\* receive address matching the identifier there is exactly one response and
\* its command has the matching address, wherever the generic commands stand;
\* when none matches and the bucket holds a generic command, every response
\* is for a generic command.
C3_AddressPrecedence ==
    Handled =>
        /\ Matching # {} =>
              /\ Len(responses) = 1
              /\ AddressMatches(responses[1].command, Pkt.can_identifier)
        /\ (Matching = {} /\ Generic # {}) =>
              /\ Len(responses) >= 1
              /\ \A r \in 1..Len(responses) :
                    responses[r].command.receive_address = None

\* a generic command was registered after the matching command, and the
\* matching command answered
C3_Witness ==
    /\ Handled
    /\ Matching # {}
    /\ Generic # {}
    /\ Last(Generic) > Last(Matching)
    /\ Len(responses) = 1
    /\ responses[1].command = commands[Last(Matching)]
    /\ "A" \in DOMAIN results

\* the positions of the commands that answered the packet
Applied == {i \in InBucket : \E r \in 1..Len(responses) : responses[r].command = commands[i]}

Defines(cmd, id) == \E k \in 1..Len(cmd.signals) : cmd.signals[k].id = id

\* what command cmd decodes for signal id from the packet's signal bytes
\* (its last signal of that id; None when the decoding raises)
DecodedBy(cmd, id) ==
    LET k == Last({j \in 1..Len(cmd.signals) : cmd.signals[j].id = id})
    IN  DecodeValue(cmd.signals[k].format, PktSignalBytes)

SignalIds == {"A", "B", "E"}

\* C4: when several commands registered under one key answer a packet and
\* define the same signal id, the value kept for the id is the one decoded by
\* the most recently registered of them.
C4_LastRegisteredWins ==
    Handled =>
        \A id \in SignalIds :
            LET definers == {i \in Applied : Defines(commands[i], id)} IN
            (/\ Cardinality(definers) >= 2
             /\ DecodedBy(commands[Last(definers)], id) # None)
            => /\ id \in DOMAIN results
               /\ results[id] = DecodedBy(commands[Last(definers)], id)[1]

\* C5 as stated: a service 0x21 response gets at most one response, also
\* when several generic commands share its key and no address matches.
C5_Original ==
    (Handled /\ PktService = SERVICE_21) => Len(responses) <= 1

\* C5 (amended): for a service 0x21 response, a command whose receive address
\* matches is selected as for service 0x01 (one response, for the most
\* recently registered matching command); when no address matches, every
\* generic command of the (0x21, offset) key gets a response, the most
\* recently registered first, as for service 0x22.
C5_Service21Selection ==
    (Handled /\ PktService = SERVICE_21) =>
        /\ Matching # {} =>
              /\ Len(responses) = 1
              /\ responses[1].command = commands[Last(Matching)]
        /\ Matching = {} =>
              /\ Len(responses) = Cardinality(Generic)
              /\ \A r \in 1..Len(responses) :
                    responses[r].command = commands[KthLast(Generic, r)]

\* a service 0x21 packet no address matched was answered by two different
\* generic commands
C5_Witness ==
    /\ Handled
    /\ PktService = SERVICE_21
    /\ Matching = {}
    /\ Cardinality(Generic) = 2
    /\ Len(responses) = 2
    /\ responses[1].command # responses[2].command

\* C6: a service 0x22 response whose bucket holds k >= 1 generic commands and
\* no matching one gets k responses, one for each generic command, each with
\* the bytes after the 2-byte PID, and every signal of those commands that
\* decodes is in the values of every response and in the result.
C6_Service22FanOut ==
    (Handled /\ PktService = SERVICE_22 /\ Matching = {} /\ Generic # {}) =>
        /\ Len(responses) = Cardinality(Generic)
        /\ \A r \in 1..Len(responses) :
              /\ responses[r].command = commands[KthLast(Generic, r)]
              /\ responses[r].data = PktSignalBytes
        /\ \A i \in Generic : \A k \in 1..Len(commands[i].signals) :
              DecodeValue(commands[i].signals[k].format, PktSignalBytes) # None
              => /\ commands[i].signals[k].id \in DOMAIN results
                 /\ \A r \in 1..Len(responses) :
                       commands[i].signals[k].id \in DOMAIN responses[r].values

\* three generic commands with signals A, B and E answered a service 0x22
\* packet, and all three signals are in the result
C6_Witness ==
    /\ Handled
    /\ PktService = SERVICE_22
    /\ Matching = {}
    /\ Cardinality(Generic) = 3
    /\ Len(responses) = 3
    /\ DOMAIN results = {"A", "B", "E"}

\* C7: of several commands of the bucket whose address matches, and for
\* service 0x01 of several generic ones when none matches, the one selected
\* is the one at the highest position of the list given to the constructor.
C7_MostRecentlyRegistered ==
    Handled =>
        /\ Cardinality(Matching) >= 2 =>
              /\ Len(responses) = 1
              /\ responses[1].command = commands[Last(Matching)]
        /\ (PktService = SERVICE_01 /\ Matching = {} /\ Cardinality(Generic) >= 2) =>
              /\ Len(responses) = 1
              /\ responses[1].command = commands[Last(Generic)]

\* a service 0x01 packet no address matched found three generic commands,
\* the last unlike the others, and the last one answered
C7_Witness ==
    /\ Handled
    /\ PktService = SERVICE_01
    /\ Matching = {}
    /\ Generic = {1, 2, 3}
    /\ commands[3] # commands[1]
    /\ commands[3] # commands[2]
    /\ responses = <<CommandResponse(commands[3], PktSignalBytes,
                                     DecodeSignals(commands[3].signals, PktSignalBytes,
                                                   EmptyDict))>>

(***************************************************************************)
(* Properties of CANFrame.from_line (specification LineSpec)               *)
(***************************************************************************)
LineReturned == call # None /\ ret # None

\* the line without its whitespace, and where its segments lie in it
CallLine == RemoveWhitespace(call[1].line)
IdLen == IF call[1].can_id_format = ELEVEN_BIT THEN 3 ELSE 8
ExtLen == IF call[1].extended_addressing_enabled = Some(TRUE) THEN 2 ELSE 0
TypePos == IdLen + ExtLen
HasTypeChar == Len(CallLine) >= TypePos + 1
TypeChar == CallLine[TypePos + 1]
ValidTypeChar == TypeChar \in {"0", "1", "2", "3"}
HeaderWidth == IF TypeChar = "1" THEN 3 ELSE IF TypeChar = "3" THEN 0 ELSE 1
HeaderChars == SubSeq(CallLine, TypePos + 2, TypePos + 1 + HeaderWidth)
PayloadChars == SubSeq(CallLine, TypePos + 2 + HeaderWidth, Len(CallLine))
AllHex(chars) == \A i \in 1..Len(chars) : IsHexDigit(chars[i])

\* the first segment the line ends before completing (DATA when only the
\* payload is missing)
FirstIncomplete ==
    IF Len(CallLine) < IdLen THEN IDENTIFIER
    ELSE IF Len(CallLine) < TypePos THEN EXTENDED_RECEIVE_ADDRESS
    ELSE IF Len(CallLine) < TypePos + 1 THEN TYPE
    ELSE IF Len(CallLine) < TypePos + 1 + HeaderWidth
    THEN (IF TypeChar = "2" THEN INDEX ELSE SIZE)
    ELSE DATA

\* C18: the segments are taken in the order identifier, extended address,
\* type nibble, type header, payload; a line that ends before a segment is
\* complete fails with the part of the first incomplete segment, and a
\* payload of odd length or with a non-hex character fails with part DATA.
C18_ErrorNamesFirstIncompleteSegment ==
    LineReturned =>
        /\ ~HasTypeChar => ret[1] = CANFrameError(Some(FirstIncomplete))
        /\ (HasTypeChar /\ ValidTypeChar) =>
              /\ Len(CallLine) < TypePos + 1 + HeaderWidth
                    => ret[1] = CANFrameError(Some(FirstIncomplete))
              /\ (Len(CallLine) >= TypePos + 1 + HeaderWidth /\ AllHex(HeaderChars)) =>
                    IF \/ PayloadChars = <<>>
                       \/ Len(PayloadChars) % 2 # 0
                       \/ ~AllHex(PayloadChars)
                    THEN ret[1] = CANFrameError(Some(DATA))
                    ELSE /\ ret[1].ok
                         /\ ret[1].frame.can_identifier = SubSeq(CallLine, 1, IdLen)
                         /\ ret[1].frame.extended_receive_address =
                               (IF ExtLen = 0 THEN None
                                ELSE Some(SubSeq(CallLine, IdLen + 1, TypePos)))
                         /\ Len(ret[1].frame.data) * 2 = Len(PayloadChars)

\* with extended addressing, a Consecutive frame whose line ends after the
\* type nibble was rejected with part INDEX
C18_Witness ==
    /\ LineReturned
    /\ ExtLen = 2
    /\ HasTypeChar
    /\ TypeChar = "2"
    /\ Len(CallLine) = TypePos + 1
    /\ ret[1] = CANFrameError(Some(INDEX))

\* C19: a line whose type nibble is not 0, 1, 2 or 3 fails with a
\* CANFrameError whose part is TYPE.
C19_InvalidTypeIsTypeError ==
    (LineReturned /\ HasTypeChar /\ ~ValidTypeChar)
    => ret[1] = CANFrameError(Some(TYPE))

\* C20: every accepted frame has an identifier of hex digits only, 3 of
\* them for the 11-bit format and 8 for the 29-bit format.
C20_IdentifierIsHex ==
    (LineReturned /\ ret[1].ok) =>
        /\ Len(ret[1].frame.can_identifier) = IdLen
        /\ AllHex(ret[1].frame.can_identifier)

(***************************************************************************)
(* Properties of the codecs (specification CodecSpec)                      *)
(***************************************************************************)
CodecReturned == call # None /\ ret # None
Fmt == call[1].format
IsScalingCall == CodecReturned /\ Fmt.kind = "Scaling"
IsEnumerationCall == CodecReturned /\ Fmt.kind = "Enumeration"

\* the bytes as one big-endian integer
RECURSIVE BigValue(_)
BigValue(bytes) ==
    IF bytes = <<>> THEN 0
    ELSE BigValue(SubSeq(bytes, 1, Len(bytes) - 1)) * 256 + bytes[Len(bytes)]

\* the bits offset .. offset + length - 1 of the bytes, most significant
\* first, as an unsigned integer; the bits past the last byte are 0
Window(bytes, offset, length) ==
    LET missing == Max(0, (offset + length + 7) \div 8 - Len(bytes))
        padded == bytes \o [i \in 1..missing |-> 0]
    IN  (BigValue(padded) \div (2 ^ (8 * Len(padded) - offset - length))) % (2 ^ length)

WindowInBuffer == Fmt.bit_offset + Fmt.bit_length <= 8 * Len(call[1].data)

\* C13: Enumeration.decode_value takes bit_length bits MSB-first from
\* bit_offset and returns the mapped value of the entry keyed by the decimal
\* string of that integer, or None when there is no such entry; never the
\* number or its decimal string.
C13_EnumerationMappedOrNone ==
    IsEnumerationCall =>
        LET raw == Window(call[1].data, Fmt.bit_offset, Fmt.bit_length)
            key == DecimalString(raw)
        IN  /\ ret[1].value # None
            /\ ret[1].value[1].kind # "number"
            /\ key \in DOMAIN Fmt.map => ret[1].value[1] = Str(Fmt.map[key])
            /\ key \notin DOMAIN Fmt.map => ret[1].value[1] = PyNone

\* an 8-bit enumeration read the raw value 254, which its map does not
\* hold, and returned None
C13_Witness ==
    /\ IsEnumerationCall
    /\ Fmt.bit_length = 8
    /\ Window(call[1].data, Fmt.bit_offset, 8) = 254
    /\ ret[1].value = Some(PyNone)

\* C14: with bytes_lsb set and bit_length > 8 the bytes reversed are exactly
\* the bytes holding a bit of the window, for every bit_offset; otherwise no
\* byte is swapped.
C14_ReversesBytesOfWindow ==
    (IsScalingCall /\ WindowInBuffer) =>
        ret[1].data =
            IF Fmt.bytes_lsb /\ Fmt.bit_length > 8
            THEN ReverseSection(call[1].data, Fmt.bit_offset \div 8,
                                (Fmt.bit_offset + Fmt.bit_length - 1) \div 8 + 1)
            ELSE call[1].data

\* C15: for a signed Scaling of bit_length L the raw integer entering the
\* transform is u when u < 2^(L-1) and u - 2^L otherwise, u being the
\* unsigned value of the window, so it lies in -2^(L-1) .. 2^(L-1) - 1; for
\* L = 16 bytes 01C7 give 455 and FE39 give -455 (45.5 and -45.5 with
\* divisor 10).
C15_TwosComplement ==
    (IsScalingCall /\ Fmt.signed /\ Fmt.bit_length >= 1 /\ WindowInBuffer) =>
        LET L == Fmt.bit_length
            u == Window(ret[1].data, Fmt.bit_offset, L)
            raw == IF u < 2 ^ (L - 1) THEN u ELSE u - 2 ^ L
            plain16 == Fmt.bit_offset = 0 /\ L = 16 /\ ~Fmt.bytes_lsb
            tenths == /\ Fmt.scalar = 1 /\ Fmt.divisor = 10 /\ Fmt.offset = 0
                      /\ Fmt.min_value = 0 - 100 /\ Fmt.max_value = 100
        IN  /\ ret[1].raw_value = Some(raw)
            /\ 0 - 2 ^ (L - 1) <= raw
            /\ raw <= 2 ^ (L - 1) - 1
            /\ (plain16 /\ call[1].data = <<1, 199>>) =>
                  /\ raw = 455
                  /\ tenths => ret[1].value = Some(Number(91, 2))
            /\ (plain16 /\ call[1].data = <<254, 57>>) =>
                  /\ raw = 0 - 455
                  /\ tenths => ret[1].value = Some(Number(0 - 91, 2))

\* the signed 16-bit scaling with divisor 10 decoded FE39 as -45.5
C15_Witness ==
    /\ IsScalingCall
    /\ Fmt.signed
    /\ Fmt.bit_length = 16
    /\ call[1].data = <<254, 57>>
    /\ ret[1].raw_value = Some(0 - 455)
    /\ ret[1].value = Some(Number(0 - 91, 2))

\* C16: Scaling.decode_value returns raw*scalar/divisor + offset clamped
\* into [min, max] when max > min, so that min <= result <= max, and the
\* unclamped value when max <= min.
C16_ClampedWhenRange ==
    (IsScalingCall /\ ret[1].value # None) =>
        LET raw == ret[1].raw_value[1]
            t == Number(raw * Fmt.scalar + Fmt.offset * Fmt.divisor, Fmt.divisor)
            lo == Number(Fmt.min_value, 1)
            hi == Number(Fmt.max_value, 1)
            v == ret[1].value[1]
        IN  IF Fmt.max_value > Fmt.min_value
            THEN /\ LessEq(lo, v)
                 /\ LessEq(v, hi)
                 /\ v = (IF ~LessEq(lo, t) THEN lo ELSE IF ~LessEq(t, hi) THEN hi ELSE t)
            ELSE v = t

\* a signed scaling with the range 0..255 read a negative raw value and
\* returned its min_value
C16_Witness ==
    /\ IsScalingCall
    /\ Fmt.min_value = 0
    /\ Fmt.max_value = 255
    /\ ret[1].raw_value # None
    /\ ret[1].raw_value[1] < 0
    /\ Fmt.scalar = 1
    /\ Fmt.divisor = 1
    /\ Fmt.offset = 0
    /\ ret[1].value = Some(Number(0, 1))

(***************************************************************************)
(* Properties of Filter.matches (specification FilterSpec)                 *)
(***************************************************************************)
FilterReturned == call # None /\ ret # None
Flt == call[1].filter

\* C17: for a year that is not None, matches is true exactly when the year
\* is in years, or both bounds are set with from <= to and from <= year <= to,
\* or both are set with from > to and (year >= from or year <= to), or only
\* to is set and year <= to, or only from is set and year >= from; so from =
\* to matches that one year only; None never matches.
C17_FilterMatches ==
    FilterReturned =>
        IF call[1].model_year = None THEN ret[1] = FALSE
        ELSE LET year == call[1].model_year[1]
                 both == Flt.from_year # None /\ Flt.to_year # None
             IN  ret[1] =
                   (\/ (Flt.years # None /\ year \in Flt.years[1])
                    \/ (both /\ Flt.from_year[1] <= Flt.to_year[1]
                             /\ Flt.from_year[1] <= year /\ year <= Flt.to_year[1])
                    \/ (both /\ Flt.from_year[1] > Flt.to_year[1]
                             /\ (year >= Flt.from_year[1] \/ year <= Flt.to_year[1]))
                    \/ (Flt.from_year = None /\ Flt.to_year # None /\ year <= Flt.to_year[1])
                    \/ (Flt.to_year = None /\ Flt.from_year # None /\ year >= Flt.from_year[1]))

(***************************************************************************)
(* Decoding failures in the registry (specification RegSpec)               *)
(***************************************************************************)
\* the signals of the commands that answered, in the order they were decoded
RECURSIVE SignalsOf(_)
SignalsOf(rs) ==
    IF rs = <<>> THEN <<>> ELSE Head(rs).command.signals \o SignalsOf(Tail(rs))
AppliedSignals == SignalsOf(responses)

Decodes(sg) == DecodeValue(sg.format, PktSignalBytes) # None
PastBuffer(sg) == sg.format.bit_offset + sg.format.bit_length > 8 * Len(PktSignalBytes)

\* the value map the decodable signals alone give: for each of their ids
\* the value of the last of them in decoding order
DecodableAt(id) ==
    {k \in 1..Len(AppliedSignals) : AppliedSignals[k].id = id /\ Decodes(AppliedSignals[k])}
ExpectedValues ==
    [id \in {AppliedSignals[k].id : k \in {j \in 1..Len(AppliedSignals) : Decodes(AppliedSignals[j])}}
        |-> DecodeValue(AppliedSignals[Last(DecodableAt(id))].format, PktSignalBytes)[1]]

\* C11 as stated: the id of a signal whose decoding fails is absent from the
\* value map, and the other signals have the values they would have without
\* the failing one.
C11_Original ==
    Handled =>
        \A r \in 1..Len(responses) :
            /\ responses[r].values = ExpectedValues
            /\ \A k \in 1..Len(AppliedSignals) :
                  ~Decodes(AppliedSignals[k])
                  => AppliedSignals[k].id \notin DOMAIN responses[r].values

\* C11 (amended): a signal whose decoding fails stores nothing, so its id is
\* absent from the value map unless another selected signal of the same id
\* decodes; identify_commands returns, and every other signal of the
\* selected commands has the value it would have without the failing one.
C11_FailingSignalSkipped ==
    Handled =>
        /\ responses # <<>> => results = ExpectedValues
        /\ \A r \in 1..Len(responses) :
              /\ responses[r].values = ExpectedValues
              /\ \A k \in 1..Len(AppliedSignals) :
                    (/\ ~Decodes(AppliedSignals[k])
                     /\ DecodableAt(AppliedSignals[k].id) = {})
                    => AppliedSignals[k].id \notin DOMAIN responses[r].values

\* a command with signals A and B answered a packet with one signal byte:
\* B, whose window is the second byte, failed and A is in the values
C11_Witness ==
    /\ Handled
    /\ Len(responses) = 1
    /\ responses[1].command.signals = <<SigA, SigB>>
    /\ PktSignalBytes = <<10>>
    /\ ~Decodes(SigB)
    /\ DOMAIN responses[1].values = {"A"}
    /\ responses[1].values["A"] = Number(10, 1)

HeaderComplete ==
    /\ HasTypeChar
    /\ ValidTypeChar
    /\ Len(CallLine) >= TypePos + 1 + HeaderWidth
    /\ AllHex(HeaderChars)

WellFormedPayload == PayloadChars # <<>> /\ Len(PayloadChars) % 2 = 0 /\ AllHex(PayloadChars)

\* C21 as stated: an empty remaining payload is a Data error for Single,
\* First and Consecutive frames, whereas a FlowControl line is accepted with
\* any remaining payload of hex pairs, the empty one included.
C21_Original ==
    (LineReturned /\ HeaderComplete) =>
        /\ (TypeChar # "3" /\ PayloadChars = <<>>) => ret[1] = CANFrameError(Some(DATA))
        /\ (TypeChar = "3" /\ (PayloadChars = <<>> \/ WellFormedPayload)) => ret[1].ok

\* C21 (amended): an empty remaining payload is a Data error for Single,
\* First, Consecutive and FlowControl frames alike; a FlowControl line is
\* accepted with any non-empty remaining payload of hex pairs after its type
\* nibble, whatever its length.
C21_EmptyPayloadIsDataError ==
    (LineReturned /\ HeaderComplete) =>
        /\ PayloadChars = <<>> => ret[1] = CANFrameError(Some(DATA))
        /\ (TypeChar = "3" /\ WellFormedPayload) =>
              /\ ret[1].ok
              /\ ret[1].frame.data_frame_header = DataFrameHeader(FLOW, None)
              /\ Len(ret[1].frame.data) * 2 = Len(PayloadChars)

\* a FlowControl line that ends at its type nibble was rejected with part DATA
C21_Witness ==
    /\ LineReturned
    /\ HasTypeChar
    /\ TypeChar = "3"
    /\ Len(CallLine) = TypePos + 1
    /\ ret[1] = CANFrameError(Some(DATA))

(***************************************************************************)
(* Packets that select nothing (specification RegEdgeSpec)                 *)
(***************************************************************************)
\* the payload holds a positive-response byte of one of the three services
\* and the whole PID of that service
HoldsKey ==
    IF Pkt.data = <<>> THEN FALSE
    ELSE IF Pkt.data[1] < 64 THEN FALSE
    ELSE IF Pkt.data[1] - 64 = SERVICE_22 THEN Len(Pkt.data) >= 3
    ELSE IF Pkt.data[1] - 64 \in {SERVICE_01, SERVICE_21} THEN Len(Pkt.data) >= 2
    ELSE FALSE

\* C22: identify_commands returns the empty list when the payload is empty,
\* when its first byte is below 0x40, when the service is none of 0x01, 0x21
\* and 0x22, when the payload is too short to hold the PID, or when no
\* command is registered under the (service, PID) key; nothing is decoded.
C22_NothingSelected ==
    (Handled /\ (~HoldsKey \/ InBucket = {})) =>
        /\ responses = <<>>
        /\ results = EmptyDict

\* a service 0x22 response cut inside its PID, while a registry with
\* commands was asked
C22_Witness ==
    /\ Handled
    /\ Pkt.data = <<98, 1>>
    /\ commands # <<>>
    /\ \A i \in 1..Len(commands) : ServiceOf(commands[i]) = SERVICE_22
    /\ responses = <<>>

\* C22 (further cases reached): the request echo and the unregistered PID
C22_WitnessBelow40 ==
    /\ Handled
    /\ Pkt.data = <<34, 1, 1, 10>>
    /\ commands # <<>>
    /\ responses = <<>>

(***************************************************************************)
(* The receive address and the identifier text (specification RegEdgeSpec) *)
(***************************************************************************)
\* the commands of the bucket whose receive address is the number the
\* identifier text denotes
NumericMatching ==
    {i \in InBucket : /\ commands[i].receive_address # None
                      /\ PyIntHex(Pkt.can_identifier) = commands[i].receive_address}

\* C29: a command's receive address matches a packet exactly when the
\* identifier, read as a hexadecimal number, equals the address, whatever the
\* letter case and the leading zeros of the identifier: when a command of
\* the bucket has that address, the one response is for such a command, and
\* when none has, no response is for a command with an address.
C29_NumericAddressMatch ==
    (Handled /\ HoldsKey) =>
        /\ NumericMatching # {} =>
              /\ Len(responses) = 1
              /\ responses[1].command = commands[Last(NumericMatching)]
        /\ NumericMatching = {} =>
              \A r \in 1..Len(responses) : responses[r].command.receive_address = None

(***************************************************************************)
(* Commands of another address (specification RegSpec)                     *)
(***************************************************************************)
\* the number the packet's identifier denotes
PktAddress == PyIntHex(Pkt.can_identifier)

\* C30: a command with a receive address is never selected for a packet
\* whose identifier differs from that address; when every command of the
\* packet's bucket has a receive address other than the identifier, there is
\* no response and no signal enters the result map.
C30_OtherAddressNeverSelected ==
    Handled =>
        /\ \A r \in 1..Len(responses) :
              responses[r].command.receive_address \in {None, PktAddress}
        /\ (\A i \in InBucket : commands[i].receive_address \notin {None, PktAddress}) =>
              /\ responses = <<>>
              /\ results = EmptyDict

\* the bucket held commands, all for the address 7EC, and the packet came
\* from 7E8: nothing answered
C30_Witness ==
    /\ Handled
    /\ Pkt.can_identifier = <<"7", "E", "8">>
    /\ InBucket # {}
    /\ \A i \in InBucket : commands[i].receive_address = Some(2028)
    /\ responses = <<>>
    /\ results = EmptyDict

(***************************************************************************)
(* The order the commands are registered in (specification RegSpec)        *)
(***************************************************************************)
\* list(signalset.commands) iterates a set: the constructor may receive the
\* same commands in any order
Orders(n) == {p \in [1..n -> 1..n] : \A i, j \in 1..n : p[i] = p[j] => i = j}
Reordered(cmds, p) == [i \in 1..Len(cmds) |-> cmds[p[i]]]
Distinct(cmds) == \A i, j \in 1..Len(cmds) : cmds[i] = cmds[j] => i = j

\* what decode_obd_response returns for the packet with a registry built
\* from cmds
DecodeWith(cmds, pkt) ==
    CollectValues(IdentifyCommands(BuildRegistry(cmds, EmptyDict), pkt), EmptyDict)

\* C23: decode_obd_response is deterministic: for the same packet and the
\* same set of commands, the value map is the same whatever order the set is
\* iterated in when the registry is built.
C23_OrderIndependent ==
    (Handled /\ Distinct(commands)) =>
        \A p \in Orders(Len(commands)) :
            DecodeWith(Reordered(commands, p), Pkt) = results

(***************************************************************************)
(* Termination of the scan (specification FairSpec)                        *)
(***************************************************************************)
\* the frames examined so far are the first frame_index of the list, each
\* caused at most one packet, and the packets stand in the order of the
\* frames that completed them
ExaminedInOrder ==
    /\ frame_index \in 0..Len(frames)
    /\ Len(packets) <= frame_index
    /\ Len(emitted_by) = Len(packets)
    /\ \A j \in 1..Len(emitted_by) :
          /\ emitted_by[j] \in 1..frame_index
          /\ j > 1 => emitted_by[j - 1] < emitted_by[j]
    /\ stops > 0 => frame_index = Len(frames)

\* one step examines exactly the next frame and emits at most one packet, or
\* reports exhaustion and leaves everything else as it is
ExaminesNextOrStops ==
    \/ /\ frame_index < Len(frames)
       /\ frame_index' = frame_index + 1
       /\ stops' = stops
       /\ \/ packets' = packets
          \/ /\ Len(packets') = Len(packets) + 1
             /\ SubSeq(packets', 1, Len(packets)) = packets
             /\ emitted_by' = Append(emitted_by, frame_index')
    \/ /\ frame_index = Len(frames)
       /\ stops' = stops + 1
       /\ UNCHANGED <<frame_index, packets, emitted_by, partial_packets>>

\* C24: for a finite list of n frames the iteration terminates: each frame
\* is examined once, in list order, and causes at most one packet (at most n
\* in all, in the order of the completing frames); the list is exhausted at
\* last, and from then on every next() reports exhaustion without a packet.
C24_Terminates ==
    /\ []ExaminedInOrder
    /\ [][ExaminesNextOrStops]_vars
    /\ <>[](frame_index = Len(frames) /\ stops > 0)

\* a list of three frames was examined to its end with a packet emitted, and
\* exhaustion was reported twice
C24_Witness ==
    /\ Len(frames) = MaxFrames
    /\ frame_index = Len(frames)
    /\ packets # <<>>
    /\ stops = 2

(***************************************************************************)
(* A First frame during a collection (specification Spec)                  *)
(***************************************************************************)
\* the last First frame of frame k's identifier before frame k
LastFirstBefore(k) ==
    Last({f \in 1..(k - 1) : /\ IsType(frames[f], FIRST)
                             /\ frames[f].can_identifier = frames[k].can_identifier})

\* that First frame and the Consecutive frames of the identifier after it,
\* up to frame k
SinceLastFirst(k) ==
    <<frames[LastFirstBefore(k)]>>
        \o SelectSeq(SubSeq(frames, LastFirstBefore(k) + 1, k),
                     LAMBDA f : /\ IsType(f, CONSECUTIVE)
                                /\ f.can_identifier = frames[k].can_identifier)

\* C26: a First frame for an identifier that is collecting replaces the
\* state: the step sets the identifier's entry to the frame's payload and
\* declared size and emits nothing, and a packet completed by a Consecutive
\* frame holds bytes of the last First frame before it and of the
\* Consecutive frames since, never of an abandoned message.
C26_FirstOverwrites ==
    /\ [][(HasFrame /\ IsType(CurrentFrame, FIRST))
          => /\ CurrentFrame.can_identifier \in DOMAIN partial_packets'
             /\ partial_packets'[CurrentFrame.can_identifier]
                   = <<CurrentFrame.data, CurrentFrame.data_frame_header.value[1]>>
             /\ packets' = packets]_vars
    /\ [](\A j \in 1..Len(packets) :
            IsType(frames[emitted_by[j]], CONSECUTIVE) =>
                packets[j].data
                    = PyPrefix(ConcatData(SinceLastFirst(emitted_by[j])),
                               frames[LastFirstBefore(emitted_by[j])].data_frame_header.value[1]))

\* two First frames of one identifier with different payloads, then the
\* Consecutive frame that completed the second message alone
C26_Witness ==
    /\ Exhausted
    /\ Len(frames) = 3
    /\ IsType(frames[1], FIRST)
    /\ IsType(frames[2], FIRST)
    /\ frames[1].can_identifier = frames[2].can_identifier
    /\ frames[1].data # frames[2].data
    /\ emitted_by = <<3>>
    /\ packets[1].data = frames[2].data \o frames[3].data

(***************************************************************************)
(* The sequence index of Consecutive frames (specification Spec)           *)
(***************************************************************************)
\* frame f with its sequence index, if it is a Consecutive frame, set to 1
Reindexed(f) ==
    IF IsType(f, CONSECUTIVE)
    THEN [f EXCEPT !.data_frame_header = DataFrameHeader(CONSECUTIVE, Some(1))]
    ELSE f
ReindexedAll(fs) == [i \in 1..Len(fs) |-> Reindexed(fs[i])]

\* C27: the packets do not depend on the sequence index of Consecutive
\* frames: a frame list gives the packets of the list with every index set
\* to 1, and the step that takes a Consecutive frame does what it does for
\* the same frame with index 1.
C27_IndexIgnored ==
    /\ [](Exhausted => packets = ScanAll(ReindexedAll(frames)))
    /\ [][(HasFrame /\ IsType(CurrentFrame, CONSECUTIVE))
          => /\ partial_packets' = OnConsecutive(partial_packets, Reindexed(CurrentFrame)).partial
             /\ (packets' = packets)
                   <=> (OnConsecutive(partial_packets, Reindexed(CurrentFrame)).emit = None)]_vars

\* a First frame and two Consecutive frames that both carry index 2; the
\* second completed the packet from all three payloads
C27_Witness ==
    /\ Exhausted
    /\ FirstThenConsecutives(frames)
    /\ Len(frames) = 3
    /\ frames[2].data_frame_header.value = Some(2)
    /\ frames[3].data_frame_header.value = Some(2)
    /\ emitted_by = <<3>>
    /\ packets[1].data = ConcatData(frames)

(***************************************************************************)
(* Isolation of the identifiers (specification Spec)                       *)
(***************************************************************************)
\* the members of a list of frames or packets that carry identifier id
Of(s, id) == SelectSeq(s, LAMBDA x : x.can_identifier = id)

C25_OncePerModelYear ==
    /\ [](\A i, j \in 1..Len(returned) :
            returned[i].model_year = returned[j].model_year
                => returned[i].registry = returned[j].registry)
    /\ [][\A year \in DOMAIN MODEL_YEAR_REGISTRY_CACHE :
            /\ year \in DOMAIN MODEL_YEAR_REGISTRY_CACHE'
            /\ MODEL_YEAR_REGISTRY_CACHE'[year] = MODEL_YEAR_REGISTRY_CACHE[year]]_vars
====
